---- MODULE Spec2Model ----
(***************************************************************************)
(* State-machine model of the simulation engine of physics_engine.py:      *)
(* SimBody and SimulationEngine.                                           *)
(*                                                                         *)
(* Numbers.  The engine computes in floating point.  Here every real is a  *)
(* fixed-point integer counted in units of 1/One, and every division and   *)
(* root rounds toward zero (sign-symmetric, like IEEE rounding).  The      *)
(* operators below follow the order of operations of the source, so that   *)
(* rounding happens where the source rounds.                               *)
(***************************************************************************)
EXTENDS Integers, Sequences, FiniteSets, TLC

\* ------------------------------------------------------------------ bounds
MaxBodies == 3
MaxSteps == 2
MaxAssigned == 3
LongSteps == 1002
SetupSteps == 0

\* -------------------------------------------------------------- arithmetic
One == 100

Abs(x) == IF x < 0 THEN -x ELSE x

\* A quotient by zero is inf or nan in numpy (a warning, no exception); the
\* reals of the model have neither, and 0 stands for it.  StepDivisors below
\* lists the divisors of a step, so that a step that divides by zero shows.
Quot(a, b) ==
    IF b = 0 THEN 0
    ELSE IF (a >= 0) = (b > 0) THEN Abs(a) \div Abs(b)
    ELSE -(Abs(a) \div Abs(b))

Mul(a, b) == Quot(a * b, One)

Div(a, b) == Quot(a * One, b)

Half == One \div 2

RECURSIVE RootSearch(_, _, _, _)
RootSearch(n, k, lo, hi) ==
    \* the largest r in lo..hi with r^k <= n
    IF lo >= hi THEN lo
    ELSE LET mid == (lo + hi + 1) \div 2
             pw == IF k = 2 THEN mid * mid ELSE mid * mid * mid
         IN IF pw <= n THEN RootSearch(n, k, mid, hi)
            ELSE RootSearch(n, k, lo, mid - 1)

RootBound(n) == IF n < 10000 THEN 100 ELSE IF n < 1000000 THEN 1000 ELSE 40000

Sqrt(x) == RootSearch(x * One, 2, 0, RootBound(x * One))

Cbrt(x) == RootSearch(x * One * One, 3, 0, 1000)

\* ----------------------------------------------------------------- vectors
Zero3 == <<0, 0, 0>>

VAdd(u, v) == [i \in 1..3 |-> u[i] + v[i]]

VSub(u, v) == [i \in 1..3 |-> u[i] - v[i]]

VScale(k, v) == [i \in 1..3 |-> Mul(k, v[i])]

VDivS(v, s) == [i \in 1..3 |-> Div(v[i], s)]

Dot(u, v) == Quot(u[1] * v[1] + u[2] * v[2] + u[3] * v[3], One)

SumSq(v) == Dot(v, v)

Norm(v) ==
    RootSearch(v[1] * v[1] + v[2] * v[2] + v[3] * v[3], 2, 0,
               RootBound(v[1] * v[1] + v[2] * v[2] + v[3] * v[3]))

\* ----------------------------------------------------------------- SimBody
TrailCap == 1000

ValidArgs_NoRadiusCheck(mass, pos, vel, radius) ==
    /\ mass > 0
    /\ Len(pos) = 3
    /\ Len(vel) = 3

\* lines 10-23: the checks of the constructor
ValidArgs(mass, pos, vel, radius) ==
    /\ mass > 0
    /\ Len(pos) = 3
    /\ Len(vel) = 3
    /\ radius > 0

SimBody(id_val, name, mass, pos, vel, radius, color) ==
    [id |-> id_val, name |-> name, mass |-> mass, pos |-> pos, vel |-> vel,
     acc |-> Zero3, radius |-> radius, color |-> color,
     trail |-> <<>>, merged |-> FALSE]

to_dict_SwapPosVel(b) ==
    [id |-> b.id, name |-> b.name, mass |-> b.mass, pos |-> b.vel,
     vel |-> b.pos, radius |-> b.radius, color |-> b.color]

\* lines 31-37: the flat record; acc, trail and merged are not in it
to_dict(b) ==
    [id |-> b.id, name |-> b.name, mass |-> b.mass, pos |-> b.pos,
     vel |-> b.vel, radius |-> b.radius, color |-> b.color]

\* lines 39-44: the constructor run on the fields of the record; the result
\* is <<body>>, or the call raises
from_dict(data) ==
    IF ValidArgs(data.mass, data.pos, data.vel, data.radius)
    THEN [raised |-> FALSE,
          value |-> <<SimBody(data.id, data.name, data.mass, data.pos,
                              data.vel, data.radius, data.color)>>]
    ELSE [raised |-> TRUE, value |-> "ValueError"]

clear_trail(b) == [b EXCEPT !.trail = <<>>]

add_to_trail_DropNewest(b) ==
    LET appended == Append(b.trail, b.pos)
    IN [b EXCEPT !.trail = IF Len(appended) > TrailCap
                           THEN SubSeq(appended, 1, TrailCap) ELSE appended]

add_to_trail(b) ==
    LET appended == Append(b.trail, b.pos)
    IN [b EXCEPT !.trail = IF Len(appended) > TrailCap
                           THEN Tail(appended) ELSE appended]

\* ------------------------------------------------------- SimulationEngine
G == One \div 10

dt == 2 * One

VARIABLES
    bodies,            \* self.bodies: sequence of SimBody records
    time_elapsed,      \* self.time_elapsed
    integrator_type,   \* self.integrator_type
    collision_model,   \* self.collision_model
    next_body_id,      \* self.next_body_id
    dropped,           \* bodies a merge pass filtered out of self.bodies;
                       \* the objects live on for callers that hold them
    id_log,            \* history: the ids the engine assigned, in order
    nsteps,            \* history: steps taken since construction
    since_reset,       \* history: steps with an active body since the last
                       \* reset_time_and_trails (or construction)
    last,              \* the operation that produced this state, and
                       \* whether it raised
    peer               \* a second SimulationEngine of the same process, when
                       \* the caller has built one

vars == <<bodies, time_elapsed, integrator_type, collision_model,
          next_body_id, dropped, id_log, nsteps, since_reset, last, peer>>

\* the caller has built one engine only
NoEngine == <<>>

Op(name, raised) == [op |-> name, raised |-> raised]

Ids(bs) == {bs[i].id : i \in DOMAIN bs}

ActiveIdx(bs) == {i \in DOMAIN bs : ~bs[i].merged}

NoActive_Empty(bs) == bs = <<>>

\* lines 281-282: simulation_step returns at once
NoActive(bs) == ActiveIdx(bs) = {}

\* lines 82 and 191: self.next_body_id += 1
BumpId_Stuck(nid) == nid

BumpId(nid) == nid + 1

AdvanceTime_Once(t) == IF t = 0 THEN t + dt ELSE t

\* line 305: self.time_elapsed += self.dt
AdvanceTime(t) == t + dt

NotMerged(b) == ~b.merged

Init ==
    /\ bodies = <<>>
    /\ time_elapsed = 0
    /\ integrator_type = "rk4"
    /\ collision_model = "ignore"
    /\ next_body_id = 0
    /\ dropped = {}
    /\ id_log = <<>>
    /\ nsteps = 0
    /\ since_reset = 0
    /\ last = Op("init", FALSE)
    /\ peer = NoEngine

\* --------------------------------------------------- force evaluator
TinySq == 1

TinyDist == 0

TooClose_Never(r_mag_sq) == FALSE

\* lines 112 and 228: a pair closer than the threshold exerts no pull
TooClose(r_mag_sq) == r_mag_sq < TinySq

\* acceleration at position p due to one body of mass m at position q
Pull(p, q, m) ==
    LET r_vec == VSub(q, p)
        r_mag_sq == SumSq(r_vec)
    IN IF TooClose(r_mag_sq) THEN Zero3
       ELSE LET r_mag == Sqrt(r_mag_sq)
                force_mag_over_mass == Div(Mul(G, m), r_mag_sq)
            IN VScale(force_mag_over_mass, VDivS(r_vec, r_mag))

RECURSIVE AccSum(_, _, _)
AccSum(bs, i, j) ==
    \* the inner loop of _calculate_accelerations from body_j = bs[j] on
    IF j > Len(bs) THEN Zero3
    ELSE IF bs[j].merged \/ j = i THEN AccSum(bs, i, j + 1)
    ELSE VAdd(Pull(bs[i].pos, bs[j].pos, bs[j].mass), AccSum(bs, i, j + 1))

calculate_accelerations(bs) ==
    [i \in DOMAIN bs |->
        IF bs[i].merged THEN bs[i]
        ELSE [bs[i] EXCEPT !.acc = AccSum(bs, i, 1)]]

\* --------------------------------------------------- elastic collisions
SeparationFactor_Half == Half

\* line 149: separation_factor = 1.01
SeparationFactor == One + One \div 100

JitterScale == One \div 10

\* values np.random.rand(3) can return (each component in [0, 1))
Rand == {Zero3, <<90, 0, 10>>}

Bounce_EqualMass(bs, i, j, n_vec, dist, min_dist) ==
    LET b1 == bs[i]
        b2 == bs[j]
        v1_n_initial == Dot(b1.vel, n_vec)
        v2_n_initial == Dot(b2.vel, n_vec)
        overlap == min_dist - dist
        push == VScale(SeparationFactor, VScale(Mul(overlap, Half), n_vec))
    IN [bs EXCEPT
          ![i] = [b1 EXCEPT
                    !.vel = VAdd(b1.vel, VScale(v2_n_initial - v1_n_initial, n_vec)),
                    !.pos = VAdd(b1.pos, push)],
          ![j] = [b2 EXCEPT
                    !.vel = VAdd(b2.vel, VScale(v1_n_initial - v2_n_initial, n_vec)),
                    !.pos = VSub(b2.pos, push)]]

Bounce(bs, i, j, n_vec, dist, min_dist) ==
    LET b1 == bs[i]
        b2 == bs[j]
        m1 == b1.mass
        m2 == b2.mass
        v1_n_initial == Dot(b1.vel, n_vec)
        v2_n_initial == Dot(b2.vel, n_vec)
        v1_n_final == Div(Mul(v1_n_initial, m1 - m2) + Mul(2 * m2, v2_n_initial),
                          m1 + m2)
        v2_n_final == Div(Mul(v2_n_initial, m2 - m1) + Mul(2 * m1, v1_n_initial),
                          m1 + m2)
        overlap == min_dist - dist
        push1 == VScale(SeparationFactor,
                        VScale(Div(Mul(overlap, m2), m1 + m2), n_vec))
        push2 == VScale(SeparationFactor,
                        VScale(Div(Mul(overlap, m1), m1 + m2), n_vec))
    IN [bs EXCEPT
          ![i] = [b1 EXCEPT
                    !.vel = VAdd(b1.vel, VScale(v1_n_final - v1_n_initial, n_vec)),
                    !.pos = VAdd(b1.pos, push1)],
          ![j] = [b2 EXCEPT
                    !.vel = VAdd(b2.vel, VScale(v2_n_final - v2_n_initial, n_vec)),
                    !.pos = VSub(b2.pos, push2)]]

Jitter(bs, i, j, rand1, rand2) ==
    [bs EXCEPT
       ![i].pos = VAdd(bs[i].pos, VScale(JitterScale, VScale(bs[i].radius, rand1))),
       ![j].pos = VSub(bs[j].pos, VScale(JitterScale, VScale(bs[j].radius, rand2)))]

ElasticPair_JitterOnContact(bs, i, j) ==
    LET b1 == bs[i]
        b2 == bs[j]
        dist == Norm(VSub(b1.pos, b2.pos))
    IN IF b1.merged \/ b2.merged THEN {bs}
       ELSE IF dist < b1.radius + b2.radius
       THEN {Jitter(bs, i, j, r1, r2) : r1 \in Rand, r2 \in Rand}
       ELSE {bs}

\* the body of the inner loop for the pair (i, j): every outcome it can have
ElasticPair(bs, i, j) ==
    LET b1 == bs[i]
        b2 == bs[j]
        dist_vec == VSub(b1.pos, b2.pos)
        dist == Norm(dist_vec)
        min_dist_for_collision == b1.radius + b2.radius
    IN IF b1.merged \/ b2.merged THEN {bs}
       ELSE IF dist < min_dist_for_collision /\ dist > TinyDist
       THEN LET n_vec == VDivS(dist_vec, dist)
                v_rel_n == Dot(VSub(b1.vel, b2.vel), n_vec)
            IN IF v_rel_n < 0
               THEN {Bounce(bs, i, j, n_vec, dist, min_dist_for_collision)}
               ELSE {bs}
       ELSE IF dist <= TinyDist
       THEN {Jitter(bs, i, j, r1, r2) : r1 \in Rand, r2 \in Rand}
       ELSE {bs}

RECURSIVE ElasticLoop(_, _, _)
ElasticLoop(bs, i, j) ==
    \* the two nested loops from the pair (i, j) on: the set of outcomes
    IF i > Len(bs) THEN {bs}
    ELSE IF j > Len(bs) THEN ElasticLoop(bs, i + 1, i + 2)
    ELSE UNION {ElasticLoop(nb, i, j + 1) : nb \in ElasticPair(bs, i, j)}

handle_collisions_elastic(bs) == ElasticLoop(bs, 1, 2)

\* ----------------------------------------------------- merge collisions
Overlap(b1, b2) == Norm(VSub(b1.pos, b2.pos)) < b1.radius + b2.radius

MergedName(b1, b2) == <<"Merged(">> \o b1.name \o <<"+">> \o b2.name \o <<")">>

MergedMass_Heavier(b1, b2) == IF b1.mass >= b2.mass THEN b1.mass ELSE b2.mass

MergedMass(b1, b2) == b1.mass + b2.mass

MergedVel_Unweighted(b1, b2) ==
    VDivS(VAdd(VScale(One, b1.vel), VScale(One, b2.vel)), 2 * One)

MergedVel(b1, b2) ==
    VDivS(VAdd(VScale(b1.mass, b1.vel), VScale(b2.mass, b2.vel)),
          MergedMass(b1, b2))

MergedPos(b1, b2) ==
    VDivS(VAdd(VScale(b1.mass, b1.pos), VScale(b2.mass, b2.pos)),
          MergedMass(b1, b2))

MergedRadius_Difference(b1, b2) ==
    Cbrt(Mul(Mul(b1.radius, b1.radius), b1.radius)
         - Mul(Mul(b2.radius, b2.radius), b2.radius))

MergedRadius(b1, b2) ==
    Cbrt(Mul(Mul(b1.radius, b1.radius), b1.radius)
         + Mul(Mul(b2.radius, b2.radius), b2.radius))

MergedColor(b1, b2) == IF b1.mass >= b2.mass THEN b1.color ELSE b2.color

MergedBody(nid, b1, b2) ==
    SimBody(nid, MergedName(b1, b2), MergedMass(b1, b2), MergedPos(b1, b2),
            MergedVel(b1, b2), MergedRadius(b1, b2), MergedColor(b1, b2))

FirstPartner_Last(bs, rm, i) ==
    LET cand == {j \in (i + 1)..Len(bs) :
                    j \notin rm /\ ~bs[j].merged /\ Overlap(bs[i], bs[j])}
    IN IF cand = {} THEN 0
       ELSE CHOOSE j \in cand : \A k \in cand : j >= k

\* the inner loop for b1 = bs[i]: the first j > i it breaks at, 0 if none
FirstPartner(bs, rm, i) ==
    LET cand == {j \in (i + 1)..Len(bs) :
                    j \notin rm /\ ~bs[j].merged /\ Overlap(bs[i], bs[j])}
    IN IF cand = {} THEN 0
       ELSE CHOOSE j \in cand : \A k \in cand : j <= k

Rebuild_KeepAll(bs, news) == bs \o news

Rebuild_ProductsFirst(bs, news) == news \o SelectSeq(bs, NotMerged)

\* lines 201-203: filter out the flagged bodies, append the products
Rebuild(bs, news) == SelectSeq(bs, NotMerged) \o news

RECURSIVE MergeLoop(_, _, _, _, _)
MergeLoop(bs, rm, news, nid, i) ==
    \* the outer loop from index i on; rm is bodies_to_remove_indices,
    \* news is new_bodies_to_add, nid is self.next_body_id
    IF i > Len(bs)
    THEN [bodies |-> Rebuild(bs, news), next_body_id |-> nid,
          flagged |-> {bs[k] : k \in {m \in DOMAIN bs : bs[m].merged}},
          made |-> news]
    ELSE IF i \in rm \/ bs[i].merged THEN MergeLoop(bs, rm, news, nid, i + 1)
    ELSE LET j == FirstPartner(bs, rm, i)
         IN IF j = 0 THEN MergeLoop(bs, rm, news, nid, i + 1)
            ELSE MergeLoop([bs EXCEPT ![i].merged = TRUE, ![j].merged = TRUE],
                           rm \cup {i, j},
                           Append(news, MergedBody(nid, bs[i], bs[j])),
                           BumpId(nid), i + 1)

handle_collisions_merge(bs, nid) == MergeLoop(bs, {}, <<>>, nid, 1)

\* ------------------------------------------------------------ integrators
\* the accelerations stored by id before the recompute (acc_old_map):
\* a later body with the same id overwrites an earlier one
AccOld(bs, id) ==
    LET same == {i \in ActiveIdx(bs) : bs[i].id = id}
    IN bs[CHOOSE i \in same : \A k \in same : k <= i].acc

VerletDrift(b) ==
    [b EXCEPT !.pos = VAdd(b.pos, VAdd(VScale(dt, b.vel),
                                       VScale(Mul(dt, dt), VScale(Half, b.acc))))]

VerletKick(b, acc_old) ==
    [b EXCEPT !.vel = VAdd(b.vel, VScale(dt, VScale(Half, VAdd(acc_old, b.acc))))]

verlet_step(bs) ==
    IF ActiveIdx(bs) = {} THEN bs
    ELSE LET moved == [i \in DOMAIN bs |->
                          IF bs[i].merged THEN bs[i] ELSE VerletDrift(bs[i])]
             recomputed == calculate_accelerations(moved)
         IN [i \in DOMAIN bs |->
                IF bs[i].merged THEN recomputed[i]
                ELSE VerletKick(recomputed[i], AccOld(moved, moved[i].id))]

RECURSIVE get_accel_for_rk4_substep(_, _)
get_accel_for_rk4_substep(temp_pos, others) ==
    IF others = <<>> THEN Zero3
    ELSE VAdd(Pull(temp_pos, Head(others).pos, Head(others).mass),
              get_accel_for_rk4_substep(temp_pos, Tail(others)))

rk4_step_for_body(body, others) ==
    LET k1_pos_deriv == body.vel
        k1_vel_deriv == body.acc
        temp_pos_k2 == VAdd(body.pos, VScale(dt, VScale(Half, k1_pos_deriv)))
        acc_k2 == get_accel_for_rk4_substep(temp_pos_k2, others)
        k2_pos_deriv == VAdd(body.vel, VScale(dt, VScale(Half, k1_vel_deriv)))
        k2_vel_deriv == acc_k2
        temp_pos_k3 == VAdd(body.pos, VScale(dt, VScale(Half, k2_pos_deriv)))
        acc_k3 == get_accel_for_rk4_substep(temp_pos_k3, others)
        k3_pos_deriv == VAdd(body.vel, VScale(dt, VScale(Half, k2_vel_deriv)))
        k3_vel_deriv == acc_k3
        temp_pos_k4 == VAdd(body.pos, VScale(dt, k3_pos_deriv))
        acc_k4 == get_accel_for_rk4_substep(temp_pos_k4, others)
        k4_pos_deriv == VAdd(body.vel, VScale(dt, k3_vel_deriv))
        k4_vel_deriv == acc_k4
        Weighted(k1, k2, k3, k4) ==
            [c \in 1..3 |-> k1[c] + 2 * k2[c] + 2 * k3[c] + k4[c]]
    IN [body EXCEPT
          !.pos = VAdd(body.pos,
                       VDivS(VScale(dt, Weighted(k1_pos_deriv, k2_pos_deriv,
                                                 k3_pos_deriv, k4_pos_deriv)),
                             6 * One)),
          !.vel = VAdd(body.vel,
                       VDivS(VScale(dt, Weighted(k1_vel_deriv, k2_vel_deriv,
                                                 k3_vel_deriv, k4_vel_deriv)),
                             6 * One))]

\* lines 263-271: for the active body at index i, the copied position and
\* mass of every other active body, in list order
Snapshot(bs, i) ==
    LET Others == SelectSeq([k \in DOMAIN bs |-> [idx |-> k, pos |-> bs[k].pos,
                                                  mass |-> bs[k].mass,
                                                  merged |-> bs[k].merged]],
                            LAMBDA o : ~o.merged /\ o.idx # i)
    IN [k \in DOMAIN Others |-> [pos |-> Others[k].pos, mass |-> Others[k].mass]]

RECURSIVE Rk4Loop_Live(_, _, _)
Rk4Loop_Live(bs, snaps, i) ==
    IF i > Len(bs) THEN bs
    ELSE IF bs[i].merged THEN Rk4Loop_Live(bs, snaps, i + 1)
    ELSE Rk4Loop_Live([bs EXCEPT
                          ![i] = rk4_step_for_body(bs[i], Snapshot(bs, i))],
                      snaps, i + 1)

RECURSIVE Rk4Loop(_, _, _)
Rk4Loop(bs, snaps, i) ==
    \* lines 273-274: advance the active bodies one after the other
    IF i > Len(bs) THEN bs
    ELSE IF bs[i].merged THEN Rk4Loop(bs, snaps, i + 1)
    ELSE Rk4Loop([bs EXCEPT ![i] = rk4_step_for_body(bs[i], snaps[i])],
                 snaps, i + 1)

rk4_step(bs) ==
    IF ActiveIdx(bs) = {} THEN bs
    ELSE LET started == calculate_accelerations(bs)
             snaps == [i \in DOMAIN bs |-> Snapshot(started, i)]
         IN calculate_accelerations(Rk4Loop(started, snaps, 1))

Integrate_Strict(bs, integrator) ==
    IF integrator = "verlet" THEN verlet_step(bs)
    ELSE IF integrator = "rk4" THEN rk4_step(bs) ELSE bs

Integrate(bs, integrator) ==
    IF integrator = "verlet" THEN verlet_step(bs) ELSE rk4_step(bs)

RecordTrails(bs) ==
    [i \in DOMAIN bs |-> IF bs[i].merged THEN bs[i] ELSE add_to_trail(bs[i])]

\* line 302: any(b.merged for b in self.bodies if not b.merged)
AnyJustMerged(bs) == \E i \in DOMAIN bs : ~bs[i].merged /\ bs[i].merged

\* lines 293-303: every outcome of the collision phase, as the new body
\* list, the new id counter, the bodies filtered out and the ids assigned
Collide(bs, model, nid) ==
    IF model = "elastic"
    THEN {[bodies |-> nb, next_body_id |-> nid, flagged |-> {}, made |-> <<>>] :
             nb \in handle_collisions_elastic(bs)}
    ELSE IF model = "merge"
    THEN LET r == handle_collisions_merge(bs, nid)
         IN {[r EXCEPT !.bodies = IF AnyJustMerged(r.bodies)
                                  THEN calculate_accelerations(r.bodies)
                                  ELSE r.bodies]}
    ELSE {[bodies |-> bs, next_body_id |-> nid, flagged |-> {}, made |-> <<>>]}

StepOutcomes_CollideFirst(bs, integrator, model, nid) ==
    {[r EXCEPT !.bodies = Integrate(r.bodies, integrator)] :
        r \in Collide(RecordTrails(bs), model, nid)}

\* lines 284-303: trails, then the integrator, then the collision policy
StepOutcomes(bs, integrator, model, nid) ==
    Collide(Integrate(RecordTrails(bs), integrator), model, nid)

\* ------------------------------------------------- the divisors of a step
\* Every division of simulation_step by a computed value, in the order the
\* step evaluates them.  A set of divisors that holds 0 is returned as soon
\* as it is found: nothing here is computed from a quotient by zero.

\* lines 112-118 and 227-231: r_mag_sq and r_mag of one pair
PullDivisors(p, q) ==
    LET r_mag_sq == SumSq(VSub(q, p))
    IN IF TooClose(r_mag_sq) THEN {} ELSE {r_mag_sq, Sqrt(r_mag_sq)}

AccDivisors(bs) ==
    UNION {PullDivisors(bs[p[1]].pos, bs[p[2]].pos) :
              p \in {q \in ActiveIdx(bs) \X ActiveIdx(bs) : q[1] # q[2]}}

SubstepDivisors(temp_pos, others) ==
    UNION {PullDivisors(temp_pos, others[k].pos) : k \in DOMAIN others}

\* lines 238-250: the three trial positions of _rk4_step_for_body
Rk4BodyDivisors(body, others) ==
    LET HalfStep(v) == VScale(dt, VScale(Half, v))
        temp_pos_k2 == VAdd(body.pos, HalfStep(body.vel))
        d2 == SubstepDivisors(temp_pos_k2, others)
        k2_pos_deriv == VAdd(body.vel, HalfStep(body.acc))
        temp_pos_k3 == VAdd(body.pos, HalfStep(k2_pos_deriv))
        d3 == SubstepDivisors(temp_pos_k3, others)
        k3_pos_deriv ==
            VAdd(body.vel,
                 HalfStep(get_accel_for_rk4_substep(temp_pos_k2, others)))
        temp_pos_k4 == VAdd(body.pos, VScale(dt, k3_pos_deriv))
    IN IF 0 \in d2 THEN d2
       ELSE d2 \cup d3 \cup SubstepDivisors(temp_pos_k4, others)

IntegrateDivisors(bs, integrator) ==
    IF ActiveIdx(bs) = {} THEN {}
    ELSE IF integrator = "verlet"
    THEN AccDivisors([i \in DOMAIN bs |->
                         IF bs[i].merged THEN bs[i] ELSE VerletDrift(bs[i])])
    ELSE LET d1 == AccDivisors(bs)
             started == calculate_accelerations(bs)
             snaps == [i \in DOMAIN bs |-> Snapshot(started, i)]
             d2 == UNION {Rk4BodyDivisors(started[i], snaps[i]) :
                             i \in ActiveIdx(bs)}
         IN IF 0 \in d1 THEN d1
            ELSE IF 0 \in d2 THEN d2
            ELSE d1 \cup d2 \cup AccDivisors(Rk4Loop(started, snaps, 1))

\* lines 128-144: dist, and m1 + m2 when the pair is closing
ElasticPairDivisors(bs, i, j) ==
    LET b1 == bs[i]
        b2 == bs[j]
        dist_vec == VSub(b1.pos, b2.pos)
        dist == Norm(dist_vec)
    IN IF b1.merged \/ b2.merged THEN {}
       ELSE IF dist < b1.radius + b2.radius /\ dist > TinyDist
       THEN IF dist # 0 /\ Dot(VSub(b1.vel, b2.vel), VDivS(dist_vec, dist)) < 0
            THEN {dist, b1.mass + b2.mass}
            ELSE {dist}
       ELSE {}

RECURSIVE ElasticDivisors(_, _, _)
ElasticDivisors(bs, i, j) ==
    \* over every outcome of the pairs before (i, j)
    IF i > Len(bs) THEN {}
    ELSE IF j > Len(bs) THEN ElasticDivisors(bs, i + 1, i + 2)
    ELSE LET d == ElasticPairDivisors(bs, i, j)
         IN IF 0 \in d THEN d
            ELSE d \cup UNION {ElasticDivisors(nb, i, j + 1) :
                                  nb \in ElasticPair(bs, i, j)}

RECURSIVE MergeDivisors(_, _, _)
MergeDivisors(bs, rm, i) ==
    \* lines 176-180: m_total of every pair the pass merges
    IF i > Len(bs) THEN {}
    ELSE IF i \in rm \/ bs[i].merged THEN MergeDivisors(bs, rm, i + 1)
    ELSE LET j == FirstPartner(bs, rm, i)
         IN IF j = 0 THEN MergeDivisors(bs, rm, i + 1)
            ELSE {bs[i].mass + bs[j].mass}
                    \cup MergeDivisors(bs, rm \cup {i, j}, i + 1)

StepDivisors(bs, integrator, model) ==
    LET d == IntegrateDivisors(RecordTrails(bs), integrator)
    IN IF 0 \in d THEN d
       ELSE IF model = "elastic"
       THEN d \cup ElasticDivisors(Integrate(RecordTrails(bs), integrator), 1, 2)
       ELSE IF model = "merge"
       THEN d \cup MergeDivisors(Integrate(RecordTrails(bs), integrator), {}, 1)
       ELSE d

\* ------------------------------------------------------------------ inputs
InA == [name |-> <<"A">>, mass |-> One, pos |-> <<0, 0, 0>>,
        vel |-> <<One, 0, 0>>, radius |-> One, color |-> "red"]

InB == [name |-> <<"B">>, mass |-> 2 * One, pos |-> <<7 * Half, 0, 0>>,
        vel |-> <<-(Half \div 2), 0, 0>>, radius |-> One, color |-> "blue"]

InC == [name |-> <<"C">>, mass |-> One, pos |-> <<0, 20 * One, 0>>,
        vel |-> <<0, 0, 0>>, radius |-> 2 * One, color |-> "green"]

InD == [name |-> <<"D">>, mass |-> One, pos |-> <<0, -(20 * One), 0>>,
        vel |-> <<0, 0, 0>>, radius |-> One, color |-> "grey"]

InBadMass == [InA EXCEPT !.mass = 0]

InBadPos == [InA EXCEPT !.pos = <<0, 0>>]

InBadVel == [InB EXCEPT !.vel = <<One, 0, 0, 0>>]

InBadRadius == [InC EXCEPT !.radius = 0]

BodyInputs == {InA, InB, InC, InBadMass, InBadPos, InBadVel, InBadRadius}

ExternalBodies ==
    {SimBody(0, InB.name, InB.mass, InB.pos, InB.vel, InB.radius, InB.color),
     SimBody(3, InA.name, InA.mass, InA.pos, InA.vel, InA.radius, InA.color)}

Integrators == {"rk4", "verlet"}

CollisionModels == {"ignore", "elastic", "merge"}

\* ------------------------------------------------------------- operations
configure(it, cm) ==
    /\ nsteps <= SetupSteps
    /\ integrator_type' = it
    /\ collision_model' = cm
    /\ last' = Op("configure", FALSE)
    /\ UNCHANGED <<peer, bodies, time_elapsed, next_body_id, dropped, id_log,
                   nsteps, since_reset>>

add_new_body(a) ==
    /\ nsteps <= SetupSteps
    /\ Len(bodies) < MaxBodies
    /\ Len(id_log) < MaxAssigned
    /\ IF ValidArgs(a.mass, a.pos, a.vel, a.radius)
       THEN /\ bodies' = Append(bodies, SimBody(next_body_id, a.name, a.mass,
                                                a.pos, a.vel, a.radius, a.color))
            /\ next_body_id' = BumpId(next_body_id)
            /\ id_log' = Append(id_log, next_body_id)
            /\ last' = Op("add_new_body", FALSE)
       ELSE /\ UNCHANGED <<bodies, next_body_id, id_log>>
            /\ last' = Op("add_new_body", TRUE)
    /\ UNCHANGED <<peer, time_elapsed, integrator_type, collision_model, dropped,
                   nsteps, since_reset>>

Max(a, b) == IF a >= b THEN a ELSE b

\* lines 70-72: the id the attached body ends up with
RemediatedId_NoCheck(bs, nid, id) == id

RemediatedId(bs, nid, id) == IF id \in Ids(bs) THEN nid ELSE id

add_body_instance(body_instance) ==
    /\ body_instance \in dropped \/ nsteps <= SetupSteps
    /\ Len(bodies) < MaxBodies
    /\ Len(id_log) < MaxAssigned
    /\ LET id == RemediatedId(bodies, next_body_id, body_instance.id)
       IN /\ bodies' = Append(bodies, [body_instance EXCEPT !.id = id])
          /\ next_body_id' = Max(next_body_id, id + 1)
          /\ id_log' = IF body_instance.id \in Ids(bodies)
                       THEN Append(id_log, id) ELSE id_log
    /\ dropped' = dropped \ {body_instance}
    /\ last' = Op("add_body_instance", FALSE)
    /\ UNCHANGED <<peer, time_elapsed, integrator_type, collision_model, nsteps,
                   since_reset>>

add_body_instance_not_a_body ==
    \* line 67-68: the argument is no SimBody
    /\ nsteps <= SetupSteps
    /\ last' = Op("add_body_instance", TRUE)
    /\ UNCHANGED <<peer, bodies, time_elapsed, integrator_type, collision_model,
                   next_body_id, dropped, id_log, nsteps, since_reset>>

clear_bodies ==
    /\ bodies' = <<>>
    /\ next_body_id' = 0
    /\ last' = Op("clear_bodies", FALSE)
    /\ UNCHANGED <<peer, time_elapsed, integrator_type, collision_model, dropped,
                   id_log, nsteps, since_reset>>

Revive_KeepFlag(b) == clear_trail(b)

\* lines 315-316: the loop body of reset_time_and_trails
Revive(b) == [clear_trail(b) EXCEPT !.merged = FALSE]

reset_time_and_trails ==
    /\ time_elapsed' = 0
    /\ bodies' = [i \in DOMAIN bodies |-> Revive(bodies[i])]
    /\ since_reset' = 0
    /\ last' = Op("reset_time_and_trails", FALSE)
    /\ UNCHANGED <<peer, integrator_type, collision_model, next_body_id, dropped,
                   id_log, nsteps>>

Step(limit) ==
    /\ last' = Op("simulation_step", FALSE)
    /\ UNCHANGED <<peer, integrator_type, collision_model>>
    /\ IF NoActive(bodies)
       THEN UNCHANGED <<bodies, time_elapsed, next_body_id, dropped, id_log,
                        nsteps, since_reset>>
       ELSE /\ nsteps < limit
            /\ \E r \in StepOutcomes(bodies, integrator_type, collision_model,
                                     next_body_id) :
                  /\ bodies' = r.bodies
                  /\ next_body_id' = r.next_body_id
                  /\ dropped' = dropped \cup r.flagged
                  /\ id_log' = id_log \o [k \in DOMAIN r.made |-> r.made[k].id]
            /\ time_elapsed' = AdvanceTime(time_elapsed)
            /\ nsteps' = nsteps + 1
            /\ since_reset' = since_reset + 1

simulation_step == Step(MaxSteps)

Next ==
    \/ \E it \in Integrators, cm \in CollisionModels : configure(it, cm)
    \/ \E a \in BodyInputs : add_new_body(a)
    \/ \E b \in ExternalBodies \cup dropped : add_body_instance(b)
    \/ add_body_instance_not_a_body
    \/ clear_bodies
    \/ reset_time_and_trails
    \/ simulation_step

Spec == Init /\ [][Next]_vars

\* ------------------------------------------------ long runs of one engine
\* the engine after its bodies were added and its configuration was chosen
LongBodyLists == {<<InA>>, <<InC>>, <<InC, InD>>}

InitLong ==
    /\ \E l \in LongBodyLists :
          /\ bodies = [k \in DOMAIN l |->
                          SimBody(k - 1, l[k].name, l[k].mass, l[k].pos, l[k].vel,
                                  l[k].radius, l[k].color)]
          /\ next_body_id = Len(l)
          /\ id_log = [k \in DOMAIN l |-> k - 1]
    /\ time_elapsed = 0
    /\ integrator_type \in Integrators
    /\ collision_model \in CollisionModels
    /\ dropped = {}
    /\ nsteps = 0
    /\ since_reset = 0
    /\ last = Op("configure", FALSE)
    /\ peer = NoEngine

simulation_step_long == Step(LongSteps)

NextLong == simulation_step_long

SpecLong == InitLong /\ [][NextLong]_vars

\* ------------------------------------------- the elastic pass on one pair
\* two bodies of radius 1, the first at the origin, as the elastic pass can
\* find them after integration
PairMasses == {One, 2 * One}

PairOffsets ==
    {Zero3, <<60, 80, 0>>, <<120, 160, 0>>, <<180, 240, 0>>, <<One, 0, 0>>,
     <<0, 0, -150>>}

PairVels ==
    {Zero3, <<One, 0, 0>>, <<-One, 0, 0>>, <<0, Half, 0>>, <<60, 80, 0>>,
     <<-80, 60, 0>>, <<0, 0, -One>>}

InitElastic ==
    /\ \E m1, m2 \in PairMasses, p2 \in PairOffsets, v1, v2 \in PairVels,
          gone \in BOOLEAN :
          bodies = <<SimBody(0, <<"P">>, m1, Zero3, v1, One, "red"),
                     [SimBody(1, <<"Q">>, m2, p2, v2, One, "blue")
                         EXCEPT !.merged = gone]>>
    /\ time_elapsed = 0
    /\ integrator_type = "rk4"
    /\ collision_model = "elastic"
    /\ next_body_id = 2
    /\ dropped = {}
    /\ id_log = <<0, 1>>
    /\ nsteps = 0
    /\ since_reset = 0
    /\ last = Op("configure", FALSE)
    /\ peer = NoEngine

elastic_pass ==
    /\ nsteps = 0
    /\ bodies' \in handle_collisions_elastic(bodies)
    /\ nsteps' = nsteps + 1
    /\ last' = Op("handle_collisions_elastic", FALSE)
    /\ UNCHANGED <<peer, time_elapsed, integrator_type, collision_model,
                   next_body_id, dropped, id_log, since_reset>>

NextElastic == elastic_pass

SpecElastic == InitElastic /\ [][NextElastic]_vars

\* ------------------------------------------------------------------ queries
\* what a call gives back: a value, or the exception it raises
Returned(v) == [raised |-> FALSE, value |-> v]

Raised(e) == [raised |-> TRUE, value |-> e]

\* None; a body that is returned is <<body>>
None == <<>>

Digits == <<"0", "1", "2", "3", "4", "5", "6", "7", "8", "9">>

IsDigit(c) == \E k \in DOMAIN Digits : Digits[k] = c

DigitValue(c) == (CHOOSE k \in DOMAIN Digits : Digits[k] = c) - 1

RECURSIVE Strip(_)
Strip(s) ==
    IF s = <<>> THEN s
    ELSE IF Head(s) = " " THEN Strip(Tail(s))
    ELSE IF s[Len(s)] = " " THEN Strip(SubSeq(s, 1, Len(s) - 1))
    ELSE s

RECURSIVE DigitsValue(_, _)
DigitsValue(s, acc) ==
    IF s = <<>> THEN acc
    ELSE DigitsValue(Tail(s), 10 * acc + DigitValue(Head(s)))

\* int(x) for a string x: blanks around, an optional sign, decimal digits
IntOfStr(s) ==
    LET t == Strip(s)
        signed == t # <<>> /\ t[1] \in {"-", "+"}
        d == IF signed THEN Tail(t) ELSE t
    IN IF d = <<>> \/ \E k \in DOMAIN d : ~IsDigit(d[k])
       THEN Raised("ValueError")
       ELSE IF signed /\ t[1] = "-" THEN Returned(-DigitsValue(d, 0))
       ELSE Returned(DigitsValue(d, 0))

\* int(x): an int as it is, a float cut toward zero, a string parsed; nan is
\* a ValueError, an infinity an OverflowError, None or a list a TypeError
IntOf(x) ==
    CASE x.kind = "int" -> Returned(x.val)
      [] x.kind = "float" -> Returned(Quot(x.val, One))
      [] x.kind = "str" -> IntOfStr(x.val)
      [] x.kind = "nan" -> Raised("ValueError")
      [] x.kind = "inf" -> Raised("OverflowError")
      [] OTHER -> Raised("TypeError")

get_body_by_id(bs, body_id) ==
    LET target_id == IntOf(body_id)
        hits == {i \in DOMAIN bs : bs[i].id = target_id.value}
    IN IF target_id.raised
       THEN IF target_id.value = "ValueError" THEN Returned(None)
            ELSE target_id
       ELSE IF hits = {} THEN Returned(None)
       ELSE Returned(<<bs[CHOOSE i \in hits : \A k \in hits : i <= k]>>)

IntArg(n) == [kind |-> "int", val |-> n]

StrArg(s) == [kind |-> "str", val |-> s]

IdArgs ==
    {IntArg(0), IntArg(1), IntArg(2), IntArg(7), IntArg(-1),
     [kind |-> "float", val |-> One + Half], [kind |-> "float", val |-> -Half],
     StrArg(<<"1">>), StrArg(<<" ", "2", " ">>), StrArg(<<"-", "1">>),
     StrArg(<<"1", "0">>), StrArg(<<"a", "b", "c">>), StrArg(<<>>),
     StrArg(<<"1", ".", "5">>), StrArg(<<"1", " ", "2">>),
     [kind |-> "nan"], [kind |-> "inf"], [kind |-> "none"], [kind |-> "list"]}

\* the engine states the queries are asked in: bodies just added, or stepped
\* once, or stepped once with one body a merge had filtered out attached
\* again
QueryBodyLists == {<<>>, <<InA>>, <<InA, InB>>, <<InA, InB, InC>>, <<InC, InD>>}

InitQuery ==
    /\ integrator_type \in Integrators
    /\ collision_model \in CollisionModels
    /\ \E l \in QueryBodyLists :
       \E fresh \in {[k \in DOMAIN l |->
                        SimBody(k - 1, l[k].name, l[k].mass, l[k].pos, l[k].vel,
                                l[k].radius, l[k].color)]} :
          \/ /\ bodies = fresh
             /\ next_body_id = Len(l)
             /\ id_log = [k \in DOMAIN l |-> k - 1]
             /\ dropped = {}
             /\ time_elapsed = 0
             /\ nsteps = 0
          \/ /\ fresh # <<>>
             /\ \E r \in StepOutcomes(fresh, integrator_type, collision_model,
                                      Len(l)) :
                   /\ next_body_id = r.next_body_id
                   /\ id_log = [k \in DOMAIN l |-> k - 1]
                                  \o [k \in DOMAIN r.made |-> r.made[k].id]
                   /\ \/ bodies = r.bodies /\ dropped = r.flagged
                      \/ \E d \in r.flagged :
                            /\ bodies = Append(r.bodies, d)
                            /\ dropped = r.flagged \ {d}
             /\ time_elapsed = dt
             /\ nsteps = 1
    /\ since_reset = nsteps
    /\ last = Op("configure", FALSE)
    /\ peer = NoEngine

call_get_body_by_id(body_id) ==
    /\ \E r \in {get_body_by_id(bodies, body_id)} :
          last' = [op |-> "get_body_by_id", raised |-> r.raised,
                   arg |-> body_id, value |-> r.value]
    /\ UNCHANGED <<peer, bodies, time_elapsed, integrator_type, collision_model,
                   next_body_id, dropped, id_log, nsteps, since_reset>>

\* b.to_dict() of the body at index i, then SimBody.from_dict of the record
call_round_trip(i) ==
    /\ \E data \in {to_dict(bodies[i])} : \E r \in {from_dict(data)} :
          last' = [op |-> "round_trip", raised |-> r.raised, arg |-> i,
                   record |-> data, value |-> r.value]
    /\ UNCHANGED <<peer, bodies, time_elapsed, integrator_type, collision_model,
                   next_body_id, dropped, id_log, nsteps, since_reset>>

\* ------------------------------------------------------- centre of mass
AllBodies == [kind |-> "none"]

IdList(ids) == [kind |-> "list", val |-> ids]

RECURSIVE TargetBodies(_, _)
TargetBodies(bs, ids) ==
    \* lines 339-341: target_bodies_temp for the ids from the first on, or the
    \* exception get_body_by_id raises
    IF ids = <<>> THEN Returned(<<>>)
    ELSE LET body == get_body_by_id(bs, Head(ids))
             rest == TargetBodies(bs, Tail(ids))
         IN IF body.raised THEN body
            ELSE IF rest.raised THEN rest
            ELSE IF body.value # None /\ ~body.value[1].merged
            THEN Returned(body.value \o rest.value)
            ELSE rest

RECURSIVE SumMass(_)
SumMass(bs) == IF bs = <<>> THEN 0 ELSE Head(bs).mass + SumMass(Tail(bs))

RECURSIVE SumWeighted(_, _)
SumWeighted(bs, field) ==
    IF bs = <<>> THEN Zero3
    ELSE VAdd(VScale(Head(bs).mass, Head(bs)[field]),
              SumWeighted(Tail(bs), field))

get_center_of_mass(bs, body_id_list) ==
    LET target_bodies_temp ==
            IF body_id_list.kind = "none"
            THEN Returned(SelectSeq(bs, NotMerged))
            ELSE TargetBodies(bs, body_id_list.val)
        total_mass == SumMass(target_bodies_temp.value)
    IN IF target_bodies_temp.raised THEN target_bodies_temp
       ELSE IF target_bodies_temp.value = <<>> THEN Returned(<<Zero3, Zero3>>)
       ELSE IF Abs(total_mass) < TinySq THEN Returned(<<Zero3, Zero3>>)
       ELSE Returned(<<VDivS(SumWeighted(target_bodies_temp.value, "pos"),
                            total_mass),
                       VDivS(SumWeighted(target_bodies_temp.value, "vel"),
                             total_mass)>>)

IdLists ==
    {AllBodies, IdList(<<>>), IdList(<<IntArg(0)>>), IdList(<<IntArg(1)>>),
     IdList(<<IntArg(0), IntArg(1)>>), IdList(<<IntArg(1), IntArg(0)>>),
     IdList(<<IntArg(0), IntArg(1), IntArg(2)>>), IdList(<<IntArg(7)>>),
     IdList(<<IntArg(2), IntArg(7)>>), IdList(<<IntArg(3), IntArg(2)>>),
     IdList(<<IntArg(0), IntArg(0)>>),
     IdList(<<IntArg(0), IntArg(0), IntArg(1)>>)}

call_get_center_of_mass(body_id_list) ==
    /\ \E r \in {get_center_of_mass(bodies, body_id_list)} :
          last' = [op |-> "get_center_of_mass", raised |-> r.raised,
                   arg |-> body_id_list, value |-> r.value]
    /\ UNCHANGED <<peer, bodies, time_elapsed, integrator_type, collision_model,
                   next_body_id, dropped, id_log, nsteps, since_reset>>

NextQuery ==
    \/ \E body_id \in IdArgs : call_get_body_by_id(body_id)
    \/ \E i \in DOMAIN bodies : call_round_trip(i)
    \/ \E body_id_list \in IdLists : call_get_center_of_mass(body_id_list)

SpecQuery == InitQuery /\ [][NextQuery]_vars

\* ------------------------------------------------ a mirror-symmetric pair
\* the first body of each pair; the second has the same mass and radius and
\* the opposite position and velocity
PairSteps == 24

MirrorInputs ==
    {[name |-> <<"O">>, mass |-> 4 * One, pos |-> <<One, 0, 0>>,
      vel |-> <<0, 20, 0>>, radius |-> One, color |-> "red"],
     [name |-> <<"H">>, mass |-> One, pos |-> <<One, 0, 0>>,
      vel |-> <<-Half, 0, 0>>, radius |-> One, color |-> "blue"],
     [name |-> <<"S">>, mass |-> 2 * One, pos |-> <<60, 80, 0>>,
      vel |-> <<10, -5, 20>>, radius |-> One, color |-> "green"]}

Mirror(v) == [c \in 1..3 |-> -v[c]]

InitPair ==
    /\ \E a \in MirrorInputs :
          bodies = <<SimBody(0, a.name, a.mass, a.pos, a.vel, a.radius, a.color),
                     SimBody(1, a.name, a.mass, Mirror(a.pos), Mirror(a.vel),
                             a.radius, a.color)>>
    /\ time_elapsed = 0
    /\ integrator_type \in Integrators
    /\ collision_model = "ignore"
    /\ next_body_id = 2
    /\ dropped = {}
    /\ id_log = <<0, 1>>
    /\ nsteps = 0
    /\ since_reset = 0
    /\ last = Op("configure", FALSE)
    /\ peer = NoEngine

simulation_step_pair == Step(PairSteps)

NextPair == simulation_step_pair

SpecPair == InitPair /\ [][NextPair]_vars

\* ------------------------------------------------ two engines, one caller
\* Engine A is the engine of the variables bodies and next_body_id; engine B
\* is peer.  A body the caller attached to both engines is one object:
\* peer.shared holds the pairs <<i, k>> for which bodies[i] and
\* peer.bodies[k] are the same object, and what one engine writes to it the
\* other engine sees.
NewEngine ==
    [bodies |-> <<>>, time_elapsed |-> 0, integrator_type |-> "rk4",
     collision_model |-> "ignore", next_body_id |-> 0, shared |-> {},
     nsteps |-> 0]

TwoBodyLists == {<<InA, InB>>, <<InC>>}

\* the arguments of the calls on two engines
TwoInputs == {InA, InD, InBadMass}

TwoExternalBodies ==
    {SimBody(0, InB.name, InB.mass, InB.pos, InB.vel, InB.radius, InB.color)}

TwoCollisionModels == {"ignore", "merge"}

PeerMaxBodies == 2

InitTwo ==
    /\ \E l \in TwoBodyLists :
          /\ bodies = [k \in DOMAIN l |->
                          SimBody(k - 1, l[k].name, l[k].mass, l[k].pos, l[k].vel,
                                  l[k].radius, l[k].color)]
          /\ next_body_id = Len(l)
          /\ id_log = [k \in DOMAIN l |-> k - 1]
    /\ time_elapsed = 0
    /\ integrator_type = "rk4"
    /\ collision_model = "ignore"
    /\ dropped = {}
    /\ nsteps = 0
    /\ since_reset = 0
    /\ last = Op("init", FALSE)
    /\ \E it \in Integrators, cm \in TwoCollisionModels :
          peer = [NewEngine EXCEPT !.integrator_type = it,
                                   !.collision_model = cm]

\* what an operation of engine B leaves alone in engine A; the bodies of A
\* are listed by the operations that can write to a shared object
PeerFrame ==
    UNCHANGED <<time_elapsed, integrator_type, collision_model, next_body_id,
                dropped, id_log, nsteps, since_reset>>

peer_add_new_body(a) ==
    /\ peer.nsteps <= SetupSteps
    /\ Len(peer.bodies) < PeerMaxBodies
    /\ IF ValidArgs(a.mass, a.pos, a.vel, a.radius)
       THEN /\ peer' = [peer EXCEPT
                          !.bodies = Append(@, SimBody(peer.next_body_id, a.name,
                                                       a.mass, a.pos, a.vel,
                                                       a.radius, a.color)),
                          !.next_body_id = BumpId(@)]
            /\ last' = Op("peer.add_new_body", FALSE)
       ELSE /\ UNCHANGED peer
            /\ last' = Op("peer.add_new_body", TRUE)
    /\ UNCHANGED bodies
    /\ PeerFrame

\* B.add_body_instance(b) for a body no other engine holds
peer_add_body_instance(body_instance) ==
    /\ peer.nsteps <= SetupSteps
    /\ Len(peer.bodies) < PeerMaxBodies
    /\ LET id == RemediatedId(peer.bodies, peer.next_body_id, body_instance.id)
       IN peer' = [peer EXCEPT
                     !.bodies = Append(@, [body_instance EXCEPT !.id = id]),
                     !.next_body_id = Max(@, id + 1)]
    /\ last' = Op("peer.add_body_instance", FALSE)
    /\ UNCHANGED bodies
    /\ PeerFrame

\* B.add_body_instance(b) for the body b at index i of engine A: line 72
\* assigns to b.id, and b is in A's list
peer_add_body_instance_shared(i) ==
    /\ peer.nsteps <= SetupSteps
    /\ Len(peer.bodies) < PeerMaxBodies
    /\ \A p \in peer.shared : p[1] # i
    /\ LET id == RemediatedId(peer.bodies, peer.next_body_id, bodies[i].id)
       IN /\ bodies' = [bodies EXCEPT ![i].id = id]
          /\ peer' = [peer EXCEPT
                        !.bodies = Append(@, [bodies[i] EXCEPT !.id = id]),
                        !.next_body_id = Max(@, id + 1),
                        !.shared = @ \cup {<<i, Len(peer.bodies) + 1>>}]
    /\ last' = Op("peer.add_body_instance", FALSE)
    /\ PeerFrame

peer_clear_bodies ==
    /\ peer.bodies # <<>>
    /\ peer' = [peer EXCEPT !.bodies = <<>>, !.next_body_id = 0, !.shared = {}]
    /\ last' = Op("peer.clear_bodies", FALSE)
    /\ UNCHANGED bodies
    /\ PeerFrame

IndexOfId(bs, id) == CHOOSE k \in DOMAIN bs : bs[k].id = id

\* the object that had this id in B's list, as B's step left it: in the new
\* list, or flagged and filtered out
ObjectAfter(r, id) ==
    IF id \in Ids(r.bodies) THEN r.bodies[IndexOfId(r.bodies, id)]
    ELSE CHOOSE d \in r.flagged : d.id = id

peer_simulation_step ==
    /\ last' = Op("peer.simulation_step", FALSE)
    /\ PeerFrame
    /\ IF NoActive(peer.bodies)
       THEN UNCHANGED <<bodies, peer>>
       ELSE /\ peer.nsteps < MaxSteps
            /\ \E r \in StepOutcomes(peer.bodies, peer.integrator_type,
                                     peer.collision_model, peer.next_body_id) :
                  /\ peer' =
                        [peer EXCEPT
                           !.bodies = r.bodies,
                           !.next_body_id = r.next_body_id,
                           !.time_elapsed = AdvanceTime(@),
                           !.nsteps = @ + 1,
                           !.shared =
                              {<<p[1], IndexOfId(r.bodies, peer.bodies[p[2]].id)>> :
                                  p \in {q \in peer.shared :
                                            peer.bodies[q[2]].id \in Ids(r.bodies)}}]
                  /\ bodies' =
                        [i \in DOMAIN bodies |->
                            IF \E p \in peer.shared : p[1] = i
                            THEN ObjectAfter(r, peer.bodies[
                                    (CHOOSE p \in peer.shared : p[1] = i)[2]].id)
                            ELSE bodies[i]]

NextTwo ==
    \/ \E a \in TwoInputs : add_new_body(a)
    \/ \E a \in TwoInputs : peer_add_new_body(a)
    \/ \E b \in TwoExternalBodies : peer_add_body_instance(b)
    \/ \E i \in DOMAIN bodies : peer_add_body_instance_shared(i)
    \/ peer_clear_bodies
    \/ peer_simulation_step

SpecTwo == InitTwo /\ [][NextTwo]_vars

\* ------------------------------------------------------- system energy
RECURSIVE KineticSum(_)
KineticSum(bs) ==
    \* line 322: sum(0.5 * b.mass * np.sum(b.vel**2))
    IF bs = <<>> THEN 0
    ELSE Mul(Mul(Half, Head(bs).mass), SumSq(Head(bs).vel))
            + KineticSum(Tail(bs))

\* lines 327-331: the term the pair (b1, b2) subtracts from potential_energy
PairPotential(b1, b2) ==
    LET r_mag == Norm(VSub(b2.pos, b1.pos))
    IN IF r_mag > TinyDist THEN Div(Mul(Mul(G, b1.mass), b2.mass), r_mag)
       ELSE 0

RECURSIVE PotentialSum(_, _, _)
PotentialSum(bs, i, j) ==
    \* the two nested loops from the pair (i, j) on
    IF i > Len(bs) THEN 0
    ELSE IF j > Len(bs) THEN PotentialSum(bs, i + 1, i + 2)
    ELSE PotentialSum(bs, i, j + 1) - PairPotential(bs[i], bs[j])

\* <<kinetic, potential, total>>
get_system_energy(bs) ==
    LET active_bodies == SelectSeq(bs, NotMerged)
        kinetic_energy == KineticSum(active_bodies)
        potential_energy == PotentialSum(active_bodies, 1, 2)
    IN IF active_bodies = <<>> THEN <<0, 0, 0>>
       ELSE <<kinetic_energy, potential_energy,
              kinetic_energy + potential_energy>>

call_get_system_energy ==
    /\ last.op # "get_system_energy"
    /\ last' = [op |-> "get_system_energy", raised |-> FALSE,
                value |-> get_system_energy(bodies)]
    /\ UNCHANGED <<peer, bodies, time_elapsed, integrator_type, collision_model,
                   next_body_id, dropped, id_log, nsteps, since_reset>>

\* ------------------------------------------------ a circular two-body orbit
\* two bodies of mass m at distance d on a circle about their centre of
\* mass: each at d/2 from it with speed sqrt(G m / (2 d)).  The first body
\* of each pair; the second is its mirror image.
OrbitSteps == 20

CircularInputs ==
    {[name |-> <<"K">>, mass |-> 2880, pos |-> <<2 * One, 0, 0>>,
      vel |-> <<0, 60, 0>>, radius |-> One, color |-> "red"],
     [name |-> <<"L">>, mass |-> 5760, pos |-> <<4 * One, 0, 0>>,
      vel |-> <<0, 60, 0>>, radius |-> One, color |-> "blue"]}

OrbitBodies(a) ==
    <<SimBody(0, a.name, a.mass, a.pos, a.vel, a.radius, a.color),
      SimBody(1, a.name, a.mass, Mirror(a.pos), Mirror(a.vel), a.radius,
              a.color)>>

InitOrbit ==
    /\ \E a \in CircularInputs : bodies = OrbitBodies(a)
    /\ time_elapsed = 0
    /\ integrator_type \in Integrators
    /\ collision_model = "ignore"
    /\ next_body_id = 2
    /\ dropped = {}
    /\ id_log = <<0, 1>>
    /\ nsteps = 0
    /\ since_reset = 0
    /\ last = Op("configure", FALSE)
    /\ peer = NoEngine

simulation_step_orbit == Step(OrbitSteps)

NextOrbit ==
    \/ simulation_step_orbit
    \/ call_get_system_energy

SpecOrbit == InitOrbit /\ [][NextOrbit]_vars

\* --------------------------------------------- the merge pass on four bodies
\* four bodies of radius 1 on the x axis, as the merge pass can find them
\* after integration; the second one may carry the merged flag
MergeOffsets == {0, One + Half, 3 * One, 4 * One + Half, 20 * One}

MergeNames == <<"p", "q", "r", "s">>

InitMerge ==
    /\ \E x \in [1..4 -> MergeOffsets], gone \in BOOLEAN :
          bodies = [k \in 1..4 |->
                      [SimBody(k - 1, <<MergeNames[k]>>, One + (k % 2) * One,
                               <<x[k], 0, 0>>, <<k * 10, 0, 0>>, One, "red")
                          EXCEPT !.merged = (gone /\ k = 2)]]
    /\ time_elapsed = 0
    /\ integrator_type = "rk4"
    /\ collision_model = "merge"
    /\ next_body_id = 4
    /\ dropped = {}
    /\ id_log = <<0, 1, 2, 3>>
    /\ nsteps = 0
    /\ since_reset = 0
    /\ last = Op("configure", FALSE)
    /\ peer = NoEngine

merge_pass ==
    /\ nsteps = 0
    /\ \E r \in {handle_collisions_merge(bodies, next_body_id)} :
          /\ bodies' = r.bodies
          /\ next_body_id' = r.next_body_id
          /\ dropped' = dropped \cup r.flagged
          /\ id_log' = id_log \o [k \in DOMAIN r.made |-> r.made[k].id]
    /\ nsteps' = nsteps + 1
    /\ last' = Op("handle_collisions_merge", FALSE)
    /\ UNCHANGED <<peer, time_elapsed, integrator_type, collision_model,
                   since_reset>>

NextMerge == merge_pass

SpecMerge == InitMerge /\ [][NextMerge]_vars

\* ------------------------------------------ an engine that steps on bodies
\* ------------------------------------------ a second engine also holds
SharedBodyLists == {<<InA, InB>>, <<InA, InB, InC>>}

SharedInputs == {InD}

\* the policies that leave the list of the stepping engine as it is
SharedCollisionModels == {"ignore", "elastic"}

InitShared ==
    /\ \E l \in SharedBodyLists :
          /\ bodies = [k \in DOMAIN l |->
                          SimBody(k - 1, l[k].name, l[k].mass, l[k].pos, l[k].vel,
                                  l[k].radius, l[k].color)]
          /\ next_body_id = Len(l)
          /\ id_log = [k \in DOMAIN l |-> k - 1]
    /\ time_elapsed = 0
    /\ integrator_type \in Integrators
    /\ collision_model \in SharedCollisionModels
    /\ dropped = {}
    /\ nsteps = 0
    /\ since_reset = 0
    /\ last = Op("init", FALSE)
    /\ peer = NewEngine

\* A.simulation_step() while B holds some of A's bodies: the step writes to
\* the body objects, which B's list refers to as well
shared_simulation_step ==
    /\ last' = Op("simulation_step", FALSE)
    /\ UNCHANGED <<integrator_type, collision_model>>
    /\ IF NoActive(bodies)
       THEN UNCHANGED <<bodies, peer, time_elapsed, next_body_id, dropped,
                        id_log, nsteps, since_reset>>
       ELSE /\ nsteps < MaxSteps
            /\ \E r \in StepOutcomes(bodies, integrator_type, collision_model,
                                     next_body_id) :
                  /\ bodies' = r.bodies
                  /\ next_body_id' = r.next_body_id
                  /\ dropped' = dropped \cup r.flagged
                  /\ id_log' = id_log \o [k \in DOMAIN r.made |-> r.made[k].id]
                  /\ peer' =
                        [peer EXCEPT !.bodies =
                           [k \in DOMAIN peer.bodies |->
                               IF \E p \in peer.shared : p[2] = k
                               THEN r.bodies[(CHOOSE p \in peer.shared :
                                                 p[2] = k)[1]]
                               ELSE peer.bodies[k]]]
            /\ time_elapsed' = AdvanceTime(time_elapsed)
            /\ nsteps' = nsteps + 1
            /\ since_reset' = since_reset + 1

NextShared ==
    \/ \E a \in SharedInputs : peer_add_new_body(a)
    \/ \E i \in DOMAIN bodies : peer_add_body_instance_shared(i)
    \/ shared_simulation_step

SpecShared == InitShared /\ [][NextShared]_vars

\* ------------------------------------- configurations read from a scenario
\* the values a loaded scenario can assign: the engine's own and others
ConfigIntegrators == {"rk4", "verlet", "euler", ""}

ConfigCollisionModels == {"ignore", "elastic", "merge", "bounce"}

ConfigBodyLists == {<<InA, InB>>, <<InA, InA>>, <<InC, InD>>}

InitConfig ==
    /\ \E l \in ConfigBodyLists :
          /\ bodies = [k \in DOMAIN l |->
                          SimBody(k - 1, l[k].name, l[k].mass, l[k].pos, l[k].vel,
                                  l[k].radius, l[k].color)]
          /\ next_body_id = Len(l)
          /\ id_log = [k \in DOMAIN l |-> k - 1]
    /\ time_elapsed = 0
    /\ integrator_type = "rk4"
    /\ collision_model = "ignore"
    /\ dropped = {}
    /\ nsteps = 0
    /\ since_reset = 0
    /\ last = Op("init", FALSE)
    /\ peer = NoEngine

NextConfig ==
    \/ \E it \in ConfigIntegrators, cm \in ConfigCollisionModels :
          configure(it, cm)
    \/ simulation_step

SpecConfig == InitConfig /\ [][NextConfig]_vars

\* ================================================================= claims
\* the step that was just taken found an active body (it did not return early)
EffectiveStep ==
    last'.op = "simulation_step" /\ \E i \in DOMAIN bodies : ~bodies[i].merged

NoDup(log) == \A i, j \in DOMAIN log : i # j => log[i] # log[j]

C2_Original ==
    [][next_body_id' >= next_body_id /\ NoDup(id_log')]_vars

\* C2 (amended): clear_bodies resets next_body_id to 0; every other operation
\* leaves it at least as large, and the ids it assigns are the consecutive
\* values from the old next_body_id up to, and not including, the new one, so
\* no id is assigned twice between two clear_bodies calls.
C2_Amended ==
    [][IF last'.op = "clear_bodies"
       THEN next_body_id' = 0 /\ id_log' = id_log
       ELSE /\ next_body_id' >= next_body_id
            /\ Len(id_log') >= Len(id_log)
            /\ \A k \in 1..(Len(id_log') - Len(id_log)) :
                  /\ id_log'[Len(id_log) + k] = next_body_id + k - 1
                  /\ id_log'[Len(id_log) + k] < next_body_id']_vars

\* C2 witness: after a clear_bodies the engine has assigned an id that it had
\* assigned before.
C2_Witness ==
    /\ ~NoDup(id_log)
    /\ last.op = "add_new_body"

\* the bodies as the collision phase of the step being taken finds them
PostIntegration == Integrate(RecordTrails(bodies), integrator_type)

Touching(b1, b2) == Norm(VSub(b1.pos, b2.pos)) < b1.radius + b2.radius

WeightedMean(m1, x1, m2, x2) ==
    VDivS(VAdd(VScale(m1, x1), VScale(m2, x2)), m1 + m2)

\* bs'[k] is the merge product of b1 and b2
ProductOf(b, b1, b2) ==
    /\ b.mass = b1.mass + b2.mass
    /\ b.vel = WeightedMean(b1.mass, b1.vel, b2.mass, b2.vel)
    /\ b.pos = WeightedMean(b1.mass, b1.pos, b2.mass, b2.pos)
    /\ ~b.merged

\* the indices of bodies' that hold a body created by the step being taken
FreshIdx == {k \in DOMAIN bodies' : bodies'[k].id >= next_body_id}

\* the active bodies the collision phase found and the step removed
GoneIdx(P) == {i \in DOMAIN P : ~P[i].merged /\ P[i].id \notin Ids(bodies')}

C4_Original ==
    [][EffectiveStep =>
        \A i \in DOMAIN bodies : bodies[i].id \in Ids(bodies')]_vars

\* C4 (amended): a body absorbed by a merge is flagged merged and removed
\* from the collection at the end of the merge pass (two bodies for every
\* product), and reset_time_and_trails does not bring it back: the collection
\* holds the same bodies, in the same order, after the reset as before it.
C4_Amended ==
    [][/\ (EffectiveStep /\ collision_model = "merge") =>
            /\ \A i \in DOMAIN bodies :
                  bodies[i].id \notin Ids(bodies') =>
                     \E d \in dropped' : d.id = bodies[i].id /\ d.merged
            /\ Cardinality({i \in DOMAIN bodies :
                              ~bodies[i].merged
                              /\ bodies[i].id \notin Ids(bodies')})
                  = 2 * Cardinality(FreshIdx)
       /\ last'.op = "reset_time_and_trails" =>
            /\ Len(bodies') = Len(bodies)
            /\ \A i \in DOMAIN bodies : bodies'[i].id = bodies[i].id
            /\ dropped' = dropped]_vars

\* C4 witness: reset_time_and_trails has run after a merge, and an absorbed
\* body is not in the collection.
C4_Witness ==
    /\ last.op = "reset_time_and_trails"
    /\ bodies # <<>>
    /\ \E d \in dropped : d.id \notin Ids(bodies)

\* C5: time_elapsed never decreases except at reset_time_and_trails, which
\* sets it to 0; a step that finds an active body adds exactly dt, every
\* other operation leaves it unchanged, so it equals n * dt after n such
\* steps since the last reset.
C5_TimeElapsed ==
    [][/\ last'.op = "reset_time_and_trails" => time_elapsed' = 0
       /\ last'.op # "reset_time_and_trails" => time_elapsed' >= time_elapsed
       /\ EffectiveStep => time_elapsed' = time_elapsed + dt
       /\ (last'.op \notin {"reset_time_and_trails", "simulation_step"}
           \/ (last'.op = "simulation_step"
               /\ \A i \in DOMAIN bodies : bodies[i].merged))
            => time_elapsed' = time_elapsed
       /\ dt > 0
       /\ time_elapsed' = since_reset' * dt]_vars

\* C5 witness: two steps have run since the last reset.
C5_Witness ==
    /\ last.op = "simulation_step"
    /\ since_reset = 2
    /\ time_elapsed = 2 * dt

\* C6: simulation_step changes nothing when the engine has no active body.
C6_NoOp ==
    [][(last'.op = "simulation_step" /\ \A i \in DOMAIN bodies : bodies[i].merged)
          => UNCHANGED <<bodies, next_body_id, time_elapsed>>]_vars

\* C6 witness: a step has run on a collection that holds only merged bodies.
C6_Witness ==
    /\ last.op = "simulation_step"
    /\ bodies # <<>>
    /\ \A i \in DOMAIN bodies : bodies[i].merged

Last(q) == q[Len(q)]

\* C7: in a step that finds an active body the trail sample is the position
\* before integration, the collision policy sees the integrated state, and
\* time_elapsed is advanced: the newest trail entry of a surviving body is its
\* position before the step; under merge a product appears exactly when two
\* active bodies overlap at their integrated positions; under elastic the
\* bodies are an outcome of the elastic pass over the integrated bodies, and
\* differ from them only if two active bodies overlap at their integrated
\* positions; under ignore the bodies are the integrated ones.
C7_PhaseOrder ==
    [][EffectiveStep =>
        \A P \in {PostIntegration} :
        \A hit \in {\E i, j \in DOMAIN P :
                      i < j /\ ~P[i].merged /\ ~P[j].merged /\ Touching(P[i], P[j])} :
           /\ \A i \in DOMAIN bodies : \A k \in DOMAIN bodies' :
                 (~bodies[i].merged /\ bodies'[k].id = bodies[i].id) =>
                    /\ bodies'[k].trail # <<>>
                    /\ Last(bodies'[k].trail) = bodies[i].pos
                    /\ P[i].trail = bodies'[k].trail
           /\ collision_model = "merge" => (hit <=> FreshIdx # {})
           /\ collision_model = "elastic" =>
                 /\ bodies' \in handle_collisions_elastic(P)
                 /\ (\E i \in DOMAIN P : bodies'[i] # P[i]) => hit
           /\ collision_model \notin {"merge", "elastic"} => bodies' = P
           /\ time_elapsed' = time_elapsed + dt]_vars

\* C7 witness: two bodies that did not overlap before the step (their newest
\* trail entries are a full r1 + r2 apart) were merged by it.
C7_Witness ==
    /\ last.op = "simulation_step"
    /\ collision_model = "merge"
    /\ nsteps = 1
    /\ \E d1, d2 \in dropped :
          /\ d1.id # d2.id
          /\ d1.trail # <<>> /\ d2.trail # <<>>
          /\ Norm(VSub(Last(d1.trail), Last(d2.trail))) >= d1.radius + d2.radius
          /\ Last(d1.trail) # d1.pos
          /\ \E k \in DOMAIN bodies : ProductOf(bodies[k], d1, d2)

\* C8: a trail never holds more than 1000 positions; a step appends the
\* position of the body to its trail and, when the trail already holds 1000,
\* drops the oldest entry and keeps the others in order.
C8_TrailCap ==
    [][/\ \A k \in DOMAIN bodies' : Len(bodies'[k].trail) <= 1000
       /\ EffectiveStep =>
            \A i \in DOMAIN bodies : \A k \in DOMAIN bodies' :
               (~bodies[i].merged /\ bodies'[k].id = bodies[i].id) =>
                  bodies'[k].trail =
                     (IF Len(bodies[i].trail) >= 1000
                      THEN SubSeq(bodies[i].trail, 2, Len(bodies[i].trail))
                      ELSE bodies[i].trail) \o <<bodies[i].pos>>]_vars

\* C8 witness: a full trail has taken one more sample and lost its oldest.
C8_Witness ==
    /\ last.op = "simulation_step"
    /\ nsteps > 1000
    /\ \E k \in DOMAIN bodies :
          /\ Len(bodies[k].trail) = 1000
          /\ bodies[k].vel # Zero3
          /\ bodies[k].trail[1] # <<0, 0, 0>>

\* C9: reset_time_and_trails sets time_elapsed to 0, empties every trail and
\* clears every merged flag, and leaves the body list, next_body_id and each
\* body's id, mass, radius, position and velocity unchanged.
C9_Reset ==
    [][last'.op = "reset_time_and_trails" =>
        /\ time_elapsed' = 0
        /\ next_body_id' = next_body_id
        /\ Len(bodies') = Len(bodies)
        /\ \A i \in DOMAIN bodies :
              /\ bodies'[i].trail = <<>>
              /\ ~bodies'[i].merged
              /\ bodies'[i].id = bodies[i].id
              /\ bodies'[i].mass = bodies[i].mass
              /\ bodies'[i].radius = bodies[i].radius
              /\ bodies'[i].pos = bodies[i].pos
              /\ bodies'[i].vel = bodies[i].vel]_vars

\* C9 witness: a reset has run on a collection of three bodies of which one
\* is a merge product; no body joins after a step except one a merge had
\* filtered out, so one of the three came back flagged merged.
C9_Witness ==
    /\ last.op = "reset_time_and_trails"
    /\ SetupSteps = 0
    /\ Len(bodies) = 3
    /\ \E k \in DOMAIN bodies : bodies[k].name[1] = "Merged("
    /\ \A k \in DOMAIN bodies : bodies[k].trail = <<>> /\ ~bodies[k].merged

\* the fields a merge pass must leave alone
SameBody(a, b) ==
    /\ a.id = b.id /\ a.mass = b.mass /\ a.pos = b.pos /\ a.vel = b.vel
    /\ a.radius = b.radius /\ a.trail = b.trail /\ a.merged = b.merged

\* the bodies the collision phase found and the step kept, in list order
Kept(P) == SelectSeq(P, LAMBDA b : b.id \in Ids(bodies'))

\* the kept bodies are unchanged and lead the collection in their old order;
\* the products follow them
KeptInPlace(P) ==
    /\ Len(bodies') = Len(Kept(P)) + Cardinality(FreshIdx)
    /\ \A k \in DOMAIN Kept(P) : SameBody(bodies'[k], Kept(P)[k])
    /\ \A k \in DOMAIN bodies' : k > Len(Kept(P)) => k \in FreshIdx

\* C10 (as stated): a merge pass removes only the members of merged pairs:
\* every other body stays, unchanged and in order, before the products.
C10_Original ==
    [][EffectiveStep /\ collision_model = "merge" =>
        \A P \in {PostIntegration} :
           /\ KeptInPlace(P)
           /\ \A i \in DOMAIN P :
                 P[i].id \notin Ids(bodies') =>
                    /\ ~P[i].merged
                    /\ \E j \in GoneIdx(P) : j # i /\ Touching(P[i], P[j])
           /\ Cardinality({i \in DOMAIN P : P[i].id \notin Ids(bodies')})
                 = 2 * Cardinality(FreshIdx)]_vars

\* C10 (amended): a merge pass removes the members of merged pairs and every
\* body that was already flagged merged; every other active body stays,
\* unchanged and in order, before the products.
C10_Amended ==
    [][EffectiveStep /\ collision_model = "merge" =>
        \A P \in {PostIntegration} :
           /\ KeptInPlace(P)
           /\ \A i \in DOMAIN P :
                 (~P[i].merged /\ P[i].id \notin Ids(bodies')) =>
                    \E j \in GoneIdx(P) : j # i /\ Touching(P[i], P[j])
           /\ Cardinality(GoneIdx(P)) = 2 * Cardinality(FreshIdx)
           /\ \A i \in DOMAIN P : P[i].merged => P[i].id \notin Ids(bodies')]_vars

\* C10 witness: a merge step has kept a body that took no part in the merge
\* in front of the product.
C10_Witness ==
    /\ last.op = "simulation_step"
    /\ collision_model = "merge"
    /\ Len(bodies) >= 2
    /\ bodies[1].trail # <<>>
    /\ bodies[Len(bodies)].name[1] = "Merged("
    /\ bodies[Len(bodies)].trail = <<>>
    /\ \A d \in dropped : ~Touching(d, bodies[1])

\* rounding allowed when a computed value is compared with a formula of the
\* reals
Tol == One \div 50

Near(x, y) == Abs(x - y) <= Tol

\* the part of v that is perpendicular to the unit vector n
Tangential(v, n) == VSub(v, VScale(Dot(v, n), n))

\* the 1-D elastic collision value of the first of two normal components
Elastic1D(m1, v1, m2, v2) == Quot(v1 * (m1 - m2) + 2 * m2 * v2, m1 + m2)

\* C11: the elastic pass changes the velocities of a pair of active bodies
\* if and only if their centres are closer than r1 + r2 (and not coincident)
\* and they are closing; then the velocity components along the contact
\* normal become the 1-D elastic-collision values (exchanged for equal
\* masses) and the tangential components are unchanged.
C11_Elastic ==
    [][last'.op = "handle_collisions_elastic" =>
        \A b1 \in {bodies[1]} : \A b2 \in {bodies[2]} :
        \A d \in {Norm(VSub(b1.pos, b2.pos))} :
        \A hit \in {/\ ~b1.merged /\ ~b2.merged
                    /\ d < b1.radius + b2.radius /\ d > 0
                    /\ Dot(VSub(b1.vel, b2.vel),
                           VDivS(VSub(b1.pos, b2.pos), d)) < 0} :
           /\ (bodies'[1].vel # b1.vel \/ bodies'[2].vel # b2.vel) <=> hit
           /\ hit =>
                \A n \in {VDivS(VSub(b1.pos, b2.pos), d)} :
                \A v1n \in {Dot(b1.vel, n)} : \A v2n \in {Dot(b2.vel, n)} :
                   /\ Near(Dot(bodies'[1].vel, n),
                           Elastic1D(b1.mass, v1n, b2.mass, v2n))
                   /\ Near(Dot(bodies'[2].vel, n),
                           Elastic1D(b2.mass, v2n, b1.mass, v1n))
                   /\ b1.mass = b2.mass =>
                         /\ Near(Dot(bodies'[1].vel, n), v2n)
                         /\ Near(Dot(bodies'[2].vel, n), v1n)
                   /\ \A c \in 1..3 :
                         /\ Near(Tangential(bodies'[1].vel, n)[c],
                                 Tangential(b1.vel, n)[c])
                         /\ Near(Tangential(bodies'[2].vel, n)[c],
                                 Tangential(b2.vel, n)[c])]_vars

\* C11 witness: a pair of unequal masses has bounced obliquely: the pass
\* pushed the bodies apart along a normal that is no coordinate axis (the
\* first one left the origin, the centres are further apart than any
\* overlapping pair with such a normal started), they now separate, and the
\* first one has a velocity across the normal.
C11_Witness ==
    /\ last.op = "handle_collisions_elastic"
    /\ bodies[1].mass # bodies[2].mass
    /\ ~bodies[1].merged /\ ~bodies[2].merged
    /\ bodies[1].pos[1] # 0 /\ bodies[1].pos[2] # 0
    /\ Norm(VSub(bodies[1].pos, bodies[2].pos)) > One + Half
    /\ Dot(VSub(bodies[1].vel, bodies[2].vel),
           VSub(bodies[1].pos, bodies[2].pos)) > 0
    /\ Dot(bodies[1].vel, <<-80, 60, 0>>) # 0

C13_Atomic ==
    [][/\ \A a \in BodyInputs :
             ((a.mass <= 0 \/ a.radius <= 0 \/ Len(a.pos) # 3 \/ Len(a.vel) # 3)
              /\ add_new_body(a))
                => (last'.raised /\ bodies' = bodies
                    /\ next_body_id' = next_body_id)
       /\ (last'.op = "add_new_body" /\ last'.raised) =>
             (bodies' = bodies /\ next_body_id' = next_body_id)
       /\ (last'.op = "add_new_body" /\ ~last'.raised) =>
             /\ Len(bodies') = Len(bodies) + 1
             /\ \A i \in DOMAIN bodies : bodies'[i] = bodies[i]
             /\ bodies'[Len(bodies')].mass > 0
             /\ bodies'[Len(bodies')].radius > 0
             /\ Len(bodies'[Len(bodies')].pos) = 3
             /\ Len(bodies'[Len(bodies')].vel) = 3]_vars

\* C13 witness: add_new_body has raised on an engine that holds two bodies
\* and has assigned two ids.
C13_Witness ==
    /\ last = Op("add_new_body", TRUE)
    /\ Len(bodies) = 2
    /\ next_body_id = 2

\* C14: every body of the collection has mass > 0 and radius > 0 after every
\* operation, merge products and products of products included, and no
\* operation changes the mass or the radius of a body that stays in the
\* collection.
C14_Positive ==
    [][/\ \A k \in DOMAIN bodies' :
             bodies'[k].mass > 0 /\ bodies'[k].radius > 0
       /\ \A i \in DOMAIN bodies : \A k \in DOMAIN bodies' :
             bodies'[k].id = bodies[i].id =>
                /\ bodies'[k].mass = bodies[i].mass
                /\ bodies'[k].radius = bodies[i].radius]_vars

\* C14 witness: the collection holds the product of a merge of a product.
C14_Witness ==
    /\ last.op = "simulation_step"
    /\ \E k \in DOMAIN bodies :
          /\ ~bodies[k].merged
          /\ bodies[k].name[1] = "Merged("
          /\ bodies[k].name[2] = "Merged("
          /\ bodies[k].mass > 2 * One

\* C15 (as stated): get_body_by_id never signals an error and does not
\* modify the engine; for an integer argument it returns the body of the
\* collection with that id, or None when there is none; for an argument that
\* cannot be parsed as an integer (a non-numeric string, a null value, any
\* other kind) it returns None.
C15_Lookup ==
    [][last'.op = "get_body_by_id" =>
        /\ ~last'.raised
        /\ UNCHANGED <<bodies, next_body_id, time_elapsed>>
        /\ last'.arg.kind = "int" =>
              IF \E i \in DOMAIN bodies : bodies[i].id = last'.arg.val
              THEN /\ Len(last'.value) = 1
                   /\ last'.value[1].id = last'.arg.val
                   /\ \E i \in DOMAIN bodies : bodies[i] = last'.value[1]
              ELSE last'.value = <<>>
        /\ (\/ last'.arg.kind \in {"none", "list", "nan", "inf"}
            \/ (last'.arg.kind = "str"
                /\ \E k \in DOMAIN last'.arg.val :
                      last'.arg.val[k] \in {"a", "b", "c", "."}))
              => last'.value = <<>>]_vars

\* C16: SimBody.from_dict(b.to_dict()) is a body with the id, name, mass,
\* radius, color, position and velocity of b, and its to_dict is the record
\* it was built from.
C16_RoundTrip ==
    [][last'.op = "round_trip" =>
        \A b \in {bodies[last'.arg]} :
           /\ ~last'.raised
           /\ Len(last'.value) = 1
           /\ \A c \in {last'.value[1]} :
                 /\ c.id = b.id /\ c.name = b.name /\ c.mass = b.mass
                 /\ c.radius = b.radius /\ c.color = b.color
                 /\ c.pos = b.pos /\ c.vel = b.vel
                 /\ [id |-> c.id, name |-> c.name, mass |-> c.mass,
                     pos |-> c.pos, vel |-> c.vel, radius |-> c.radius,
                     color |-> c.color] = last'.record]_vars

\* C16 witness: the round trip has rebuilt a merged body that had moved: the
\* copy has its position and velocity, and neither its trail nor its flag.
C16_Witness ==
    /\ last.op = "round_trip"
    /\ ~last.raised
    /\ bodies[last.arg].merged
    /\ bodies[last.arg].trail # <<>>
    /\ bodies[last.arg].pos # bodies[last.arg].vel
    /\ last.value[1].pos = bodies[last.arg].pos
    /\ last.value[1].trail = <<>>
    /\ ~last.value[1].merged

\* C17 (as stated): when the engine has exactly one active body, a step
\* leaves its stored acceleration zero and its velocity unchanged, and adds
\* velocity * dt to its position, under both integrators.
C17_Isolated ==
    [][(last'.op = "simulation_step"
        /\ Cardinality({i \in DOMAIN bodies : ~bodies[i].merged}) = 1) =>
          \A i \in DOMAIN bodies :
             ~bodies[i].merged =>
                \E k \in DOMAIN bodies' :
                   /\ bodies'[k].id = bodies[i].id
                   /\ bodies'[k].acc = Zero3
                   /\ bodies'[k].vel = bodies[i].vel
                   /\ bodies'[k].pos =
                         [c \in 1..3 |->
                             bodies[i].pos[c]
                                + Quot(bodies[i].vel[c] * dt, One)]]_vars

\* C18: two bodies of equal mass that start mirror-symmetric about the
\* origin, under collision_model = ignore, are mirror images of each other
\* after every number of steps, under both integrators, and
\* get_center_of_mass returns the origin and the zero velocity.
C18_Mirror ==
    /\ Len(bodies) = 2
    /\ bodies[1].mass = bodies[2].mass
    /\ \A c \in 1..3 :
          /\ bodies[1].pos[c] + bodies[2].pos[c] = 0
          /\ bodies[1].vel[c] + bodies[2].vel[c] = 0
    /\ get_center_of_mass(bodies, AllBodies)
          = [raised |-> FALSE, value |-> <<Zero3, Zero3>>]

\* C18 witness: after three steps or more under rk4 the two bodies pull each
\* other and have turned: the first one, which started along +y on the
\* x axis, is off both axes and moves toward -x and -y.
C18_Witness ==
    /\ last.op = "simulation_step"
    /\ integrator_type = "rk4"
    /\ nsteps >= 3
    /\ bodies[1].acc # Zero3
    /\ bodies[1].pos[1] # 0 /\ bodies[1].pos[2] # 0
    /\ bodies[1].vel[1] < 0 /\ bodies[1].vel[2] < 0

\* the bijections of 1..n
Perms(n) == {f \in [1..n -> 1..n] : \A a, b \in 1..n : f[a] = f[b] => a = b}

\* the same bodies inserted in another order
Reordered(bs, f) == [k \in DOMAIN bs |-> bs[f[k]]]

\* the active bodies by mass, position and velocity, each with the number of
\* active bodies that have these values
PhysicalState(bs) ==
    {[mass |-> bs[i].mass, pos |-> bs[i].pos, vel |-> bs[i].vel,
      count |-> Cardinality({k \in DOMAIN bs :
                               /\ ~bs[k].merged
                               /\ bs[k].mass = bs[i].mass
                               /\ bs[k].pos = bs[i].pos
                               /\ bs[k].vel = bs[i].vel})] :
        i \in {k \in DOMAIN bs : ~bs[k].merged}}

\* C19 (as stated): the outcome of a step does not depend on the order of
\* the body list: the active bodies after a step, by mass, position and
\* velocity, are those a step of an engine that holds the same bodies in
\* any other order can yield.
C19_OrderIrrelevant ==
    [][EffectiveStep =>
        \A f \in Perms(Len(bodies)) :
           PhysicalState(bodies') \in
              {PhysicalState(r.bodies) :
                  r \in StepOutcomes(Reordered(bodies, f), integrator_type,
                                     collision_model, next_body_id)}]_vars

\* the active bodies whose id is one of the integers of the list, each once,
\* in list order of the collection; all active bodies when no list is given
Chosen(bs, body_id_list) ==
    IF body_id_list.kind = "none" THEN SelectSeq(bs, LAMBDA b : ~b.merged)
    ELSE SelectSeq(bs, LAMBDA b :
                          /\ ~b.merged
                          /\ \E k \in DOMAIN body_id_list.val :
                                body_id_list.val[k].val = b.id)

\* C20 (as stated): get_center_of_mass(ids) returns the mass-weighted average
\* position and velocity over the set of active bodies whose id appears in
\* ids, each such body counted once (ids that match no body or a merged body
\* are ignored); the origin and the zero vector when that set is empty; with
\* no id list it uses all active bodies.
C20_CenterOfMass ==
    [][last'.op = "get_center_of_mass" =>
        \A chosen \in {Chosen(bodies, last'.arg)} :
           /\ ~last'.raised
           /\ UNCHANGED <<bodies, next_body_id, time_elapsed>>
           /\ IF chosen = <<>> THEN last'.value = <<Zero3, Zero3>>
              ELSE last'.value =
                      <<VDivS(SumWeighted(chosen, "pos"), SumMass(chosen)),
                        VDivS(SumWeighted(chosen, "vel"), SumMass(chosen))>>]_vars

PeerOps ==
    {"peer.add_new_body", "peer.add_body_instance", "peer.clear_bodies",
     "peer.simulation_step"}

\* C21 (as stated): engine instances are independent in their id sequences:
\* no operation on one engine changes the other engine's next_body_id or the
\* id of a body the other engine holds, so an operation on engine B never
\* makes two bodies of engine A share an id.
C21_Independent ==
    [][/\ last'.op \in PeerOps =>
            /\ next_body_id' = next_body_id
            /\ Len(bodies') = Len(bodies)
            /\ \A i \in DOMAIN bodies : bodies'[i].id = bodies[i].id
            /\ (\A i, j \in DOMAIN bodies :
                   i # j => bodies[i].id # bodies[j].id)
                 => (\A i, j \in DOMAIN bodies' :
                        i # j => bodies'[i].id # bodies'[j].id)
       /\ last'.op = "add_new_body" =>
            /\ peer'.next_body_id = peer.next_body_id
            /\ Len(peer'.bodies) = Len(peer.bodies)
            /\ \A k \in DOMAIN peer.bodies :
                  peer'.bodies[k].id = peer.bodies[k].id]_vars

\* the total energy of the orbit the engine was started on
InitialEnergy ==
    get_system_energy(
       OrbitBodies(CHOOSE a \in CircularInputs : a.name = bodies[1].name))[3]

\* C22 (as stated): for a circular two-body orbit under collision_model =
\* ignore the total energy get_system_energy returns after each step is
\* within 1% of its initial value, with rk4 and with verlet.
C22_EnergyDrift ==
    [][last'.op = "get_system_energy" =>
        \A e0 \in {InitialEnergy} :
           100 * Abs(last'.value[3] - e0) <= Abs(e0)]_vars

\* C23 (as stated): when the merge pass of a step merged at least one pair,
\* the accelerations are recomputed before the step returns: the stored
\* acceleration of every active body, each product included, is the Force
\* Evaluator's result for the bodies the step leaves.
C23_Recomputed ==
    [][(EffectiveStep /\ collision_model = "merge" /\ FreshIdx # {}) =>
          \A k \in DOMAIN bodies' :
             ~bodies'[k].merged => bodies'[k].acc = AccSum(bodies', k, 1)]_vars

\* the pairs <<i, j>> of bodies the pass merged, read from the names of the
\* products it appended
MergedPairs ==
    {p \in (DOMAIN bodies) \X (DOMAIN bodies) :
        \E k \in DOMAIN bodies' :
           bodies'[k].name = <<"Merged(">> \o bodies[p[1]].name \o <<"+">>
                                \o bodies[p[2]].name \o <<")">>}

\* body k was taken by a pair whose scan began before index i
TakenBefore(M, k, i) == \E p \in M : k \in {p[1], p[2]} /\ p[1] < i

\* first match wins: the pairs are disjoint pairs of overlapping active
\* bodies, i < j; when the scan reaches an active body i that no earlier
\* pair took, i merges with the lowest j > i that overlaps it and that no
\* earlier pair took, and stays if there is none; every product is in the
\* collection, active, at the end of the pass
FirstMatchWins(M) ==
    /\ \A p \in M :
          /\ p[1] < p[2]
          /\ ~bodies[p[1]].merged /\ ~bodies[p[2]].merged
          /\ Touching(bodies[p[1]], bodies[p[2]])
          /\ bodies[p[1]].id \notin Ids(bodies')
          /\ bodies[p[2]].id \notin Ids(bodies')
          /\ \A k \in (p[1] + 1)..(p[2] - 1) :
                (~bodies[k].merged /\ Touching(bodies[p[1]], bodies[k]))
                   => TakenBefore(M, k, p[1])
    /\ \A p, q \in M : p # q => {p[1], p[2]} \cap {q[1], q[2]} = {}
    /\ \A i \in DOMAIN bodies :
          (~bodies[i].merged /\ \A p \in M : i \notin {p[1], p[2]}) =>
             /\ \E k \in DOMAIN bodies' : SameBody(bodies'[k], bodies[i])
             /\ \A j \in (i + 1)..Len(bodies) :
                   (~bodies[j].merged /\ Touching(bodies[i], bodies[j]))
                      => TakenBefore(M, j, i)
    /\ Cardinality(FreshIdx) = Cardinality(M)
    /\ \A k \in FreshIdx : ~bodies'[k].merged

\* C24 (as stated): in one merge pass each body takes part in at most one
\* merge and a product is not merged again in the pass; pairs are examined
\* in ascending (i, j) order and the lowest-index unmerged body merges with
\* the lowest-index unmerged partner it overlaps; a third body that overlaps
\* either body of a merged pair stays unmerged in that step.
C24_Original ==
    [][last'.op = "handle_collisions_merge" =>
        \A M \in {MergedPairs} :
           /\ FirstMatchWins(M)
           /\ \A p \in M : \A k \in DOMAIN bodies :
                 (/\ k \notin {p[1], p[2]}
                  /\ ~bodies[k].merged
                  /\ (Touching(bodies[k], bodies[p[1]])
                      \/ Touching(bodies[k], bodies[p[2]])))
                    => bodies[k].id \in Ids(bodies')]_vars

\* C24 (amended): as above, except for the third body: a body that overlaps
\* a body of a merged pair takes no part in that merge and is not merged
\* with its product, but it merges in the same pass with another body it
\* overlaps when the scan finds one that no earlier pair took.
C24_Amended ==
    [][last'.op = "handle_collisions_merge" =>
        \A M \in {MergedPairs} : FirstMatchWins(M)]_vars

\* C24 witness: the pass has merged two pairs of a chain of four bodies: a
\* body of the second pair overlaps a body of the first.
C24_Witness ==
    /\ last.op = "handle_collisions_merge"
    /\ Len(bodies) = 2
    /\ bodies[1].name = <<"Merged(", "p", "+", "q", ")">>
    /\ bodies[2].name = <<"Merged(", "r", "+", "s", ")">>
    /\ \E d1, d2 \in dropped :
          d1.name = <<"q">> /\ d2.name = <<"r">> /\ Touching(d1, d2)

\* rounding allowed for a position the pass computed through a unit normal
\* (each of its three components is cut to 1/One)
PosTol == 2 * Tol

C26_VerletOrder ==
    [][(EffectiveStep /\ integrator_type = "verlet"
                      /\ collision_model = "ignore") =>
          /\ Len(bodies') = Len(bodies)
          /\ \A i \in DOMAIN bodies :
                \A b \in {bodies[i]} : \A c \in {bodies'[i]} :
                   /\ c.id = b.id /\ c.mass = b.mass /\ c.merged = b.merged
                   /\ b.merged => c.pos = b.pos /\ c.vel = b.vel /\ c.acc = b.acc
                   /\ ~b.merged =>
                        /\ c.pos = VAdd(b.pos,
                                        VAdd(VScale(dt, b.vel),
                                             VScale(Mul(dt, dt),
                                                    VScale(Half, b.acc))))
                        /\ c.acc = AccSum(bodies', i, 1)
                        /\ c.vel = VAdd(b.vel,
                                        VScale(dt, VScale(Half,
                                                          VAdd(b.acc, c.acc))))]_vars


\* the rk4 loop run from the last body to the first, on the same snapshots
RECURSIVE Rk4Descending(_, _, _)
Rk4Descending(bs, snaps, i) ==
    IF i < 1 THEN bs
    ELSE IF bs[i].merged THEN Rk4Descending(bs, snaps, i - 1)
    ELSE Rk4Descending([bs EXCEPT ![i] = rk4_step_for_body(bs[i], snaps[i])],
                       snaps, i - 1)

\* C27: in an RK4 step every active body is integrated against the positions
\* and masses the other active bodies had at the start of the step (the
\* snapshots are taken before any body is advanced), so the new position and
\* velocity of body i never reflect another body's updated position and are
\* the same whatever the order in which the bodies are advanced.
C27_FrozenSnapshots ==
    [][(EffectiveStep /\ integrator_type # "verlet"
                      /\ collision_model = "ignore") =>
          \A S \in {calculate_accelerations(bodies)} :
             /\ Len(bodies') = Len(bodies)
             /\ \A i \in DOMAIN bodies :
                   ~bodies[i].merged =>
                      \A e \in {rk4_step_for_body(S[i], Snapshot(S, i))} :
                         bodies'[i].pos = e.pos /\ bodies'[i].vel = e.vel
             /\ \A D \in {Rk4Descending(
                             S, [i \in DOMAIN S |-> Snapshot(S, i)], Len(S))} :
                   \A i \in DOMAIN bodies :
                      bodies'[i].pos = D[i].pos /\ bodies'[i].vel = D[i].vel]_vars

\* C27 witness: an rk4 step under ignore has advanced two active bodies that
\* pull each other: the second one was integrated after the first had moved.
C27_Witness ==
    /\ last.op = "simulation_step"
    /\ integrator_type = "rk4" /\ collision_model = "ignore"
    /\ nsteps >= 1
    /\ \E i, j \in DOMAIN bodies :
          /\ i < j
          /\ ~bodies[i].merged /\ ~bodies[j].merged
          /\ bodies[i].trail # <<>> /\ bodies[j].trail # <<>>
          /\ bodies[i].pos # bodies[i].trail[Len(bodies[i].trail)]
          /\ bodies[j].acc # Zero3


\* the elastic pass started on bs at the pair (i, j) comes to a pair of
\* active bodies whose centres coincide (lines 152-154)
RECURSIVE MeetsCoincident(_, _, _)
MeetsCoincident(bs, i, j) ==
    IF i > Len(bs) THEN FALSE
    ELSE IF j > Len(bs) THEN MeetsCoincident(bs, i + 1, i + 2)
    ELSE IF /\ ~bs[i].merged /\ ~bs[j].merged
            /\ Norm(VSub(bs[i].pos, bs[j].pos)) <= TinyDist
    THEN TRUE
    ELSE \E nb \in ElasticPair(bs, i, j) : MeetsCoincident(nb, i, j + 1)

\* C28 (as stated): a simulation_step under the verlet integrator is
\* deterministic: two engines in identical states that each take one step
\* end in identical states, whatever the collision model.
C28_Original ==
    [][(EffectiveStep /\ integrator_type = "verlet") =>
          Cardinality(StepOutcomes(bodies, integrator_type, collision_model,
                                   next_body_id)) = 1]_vars

\* C28 (amended): a simulation_step under the verlet integrator has one
\* outcome under ignore and under merge, and under elastic unless the
\* elastic pass comes to two active bodies with coincident centres, which
\* it displaces by random vectors.
C28_Amended ==
    [][(EffectiveStep /\ integrator_type = "verlet") =>
          \A P \in {Integrate(RecordTrails(bodies), "verlet")} :
             (collision_model # "elastic" \/ ~MeetsCoincident(P, 1, 2)) =>
                \A O \in {StepOutcomes(bodies, integrator_type, collision_model,
                                       next_body_id)} :
                   /\ Cardinality(O) = 1
                   /\ \A r \in O : bodies' = r.bodies]_vars

\* C28 witness: a verlet step under elastic has bounced A and B, which
\* overlapped with distinct centres: B, which moved toward -x, moves toward +x.
C28_Witness ==
    /\ last.op = "simulation_step"
    /\ integrator_type = "verlet" /\ collision_model = "elastic"
    /\ nsteps >= 1
    /\ Len(bodies) = 2
    /\ bodies[1].name = <<"A">> /\ bodies[2].name = <<"B">>
    /\ bodies[1].pos # bodies[2].pos
    /\ bodies[2].vel[1] > 0


\* the sum of the masses of the active bodies of a list
ActiveMass(bs) == SumMass(SelectSeq(bs, NotMerged))

\* the bodies of a list that are flagged merged
FlaggedIdx(bs) == {i \in DOMAIN bs : bs[i].merged}

\* what the claim says of every step whatever the policy, and of the steps
\* under ignore and elastic
SameBodiesOrFewer ==
    /\ Len(bodies') <= Len(bodies)
    /\ ActiveMass(bodies') = ActiveMass(bodies)
    /\ collision_model # "merge" =>
          /\ Len(bodies') = Len(bodies)
          /\ \A i \in DOMAIN bodies :
                /\ bodies'[i].id = bodies[i].id
                /\ bodies'[i].mass = bodies[i].mass
                /\ bodies'[i].merged = bodies[i].merged

\* C29 (as stated): simulation_step never increases the number of bodies and
\* conserves total mass; under ignore and elastic the collection holds the
\* same bodies with the same masses; under merge the number of bodies drops by
\* exactly the number of merges of the step and the sum of the masses of the
\* active bodies is unchanged.
C29_Original ==
    [][last'.op = "simulation_step" =>
          /\ SameBodiesOrFewer
          /\ collision_model = "merge" =>
                Len(bodies') = Len(bodies) - Cardinality(FreshIdx)]_vars

\* C29 (amended): as stated, but under merge a step that finds an active body
\* drops the number of bodies by the number of merges plus the number of
\* bodies of the collection that were flagged merged before the step.
C29_Amended ==
    [][last'.op = "simulation_step" =>
          /\ SameBodiesOrFewer
          /\ collision_model = "merge" =>
                /\ \A k \in FreshIdx :
                      /\ ~bodies'[k].merged
                      /\ \E d1, d2 \in dropped' \ dropped :
                            /\ d1.id # d2.id
                            /\ bodies'[k].mass = d1.mass + d2.mass
                /\ Len(bodies') =
                      IF \A i \in DOMAIN bodies : bodies[i].merged
                      THEN Len(bodies)
                      ELSE Len(bodies) - Cardinality(FreshIdx)
                              - Cardinality(FlaggedIdx(bodies))]_vars

\* C29 witness: a merge step has replaced two active bodies by one product
\* of their summed mass and kept a third body.
C29_Witness ==
    /\ last.op = "simulation_step"
    /\ collision_model = "merge"
    /\ Len(bodies) = 2
    /\ ~bodies[1].merged /\ bodies[1].trail # <<>>
    /\ bodies[2].name[1] = "Merged("
    /\ \E d1, d2 \in dropped :
          d1.id # d2.id /\ bodies[2].mass = d1.mass + d2.mass
    /\ Cardinality(dropped) = 2


\* C30: the engine never rejects a configuration value at step time:
\* simulation_step treats every integrator_type other than 'verlet' as rk4
\* and every collision_model other than 'elastic' and 'merge' as ignore (no
\* collision processing), and still records trails and advances time_elapsed
\* by dt.
C30_NoRejection ==
    [][last'.op = "simulation_step" =>
          /\ ~last'.raised
          /\ EffectiveStep =>
                \A it \in {IF integrator_type = "verlet" THEN "verlet" ELSE "rk4"} :
                \A cm \in {IF collision_model \in {"elastic", "merge"}
                           THEN collision_model ELSE "ignore"} :
                   /\ \E r \in StepOutcomes(bodies, it, cm, next_body_id) :
                         bodies' = r.bodies /\ next_body_id' = r.next_body_id
                   /\ time_elapsed' = time_elapsed + dt
                   /\ cm = "ignore" =>
                         /\ Len(bodies') = Len(bodies)
                         /\ \A i \in DOMAIN bodies :
                               ~bodies[i].merged =>
                                  /\ bodies'[i].trail # <<>>
                                  /\ bodies'[i].trail[Len(bodies'[i].trail)]
                                        = bodies[i].pos
                                  /\ it = "rk4" =>
                                        bodies'[i].pos =
                                           rk4_step_for_body(
                                              calculate_accelerations(bodies)[i],
                                              Snapshot(calculate_accelerations(bodies),
                                                       i)).pos]_vars

\* C30 witness: an engine whose integrator_type and collision_model are
\* values the engine does not know has stepped twice: its two overlapping
\* bodies have moved, are both in the collection and have their trails.
C30_Witness ==
    /\ last.op = "simulation_step"
    /\ integrator_type = "euler" /\ collision_model = "bounce"
    /\ nsteps = 2 /\ time_elapsed = 2 * dt
    /\ Len(bodies) = 2
    /\ bodies[1].name = <<"A">> /\ bodies[2].name = <<"B">>
    /\ Len(bodies[1].trail) = 2 /\ Len(bodies[2].trail) = 2
    /\ bodies[1].pos # bodies[1].trail[2]
    /\ Touching(bodies[1], bodies[2])
====
